---------------------------- MODULE Spec2Model ----------------------------
(* A model of the rift tunnelling daemon (crates/wh-daemon, crates/wh-core).  *)
(*                                                                          *)
(* Spec       the daemon control loop of DaemonServer::run on the sharer    *)
(*            side: the command channel, the queue of inbound tunnel        *)
(*            substreams, the approval gate and the spawned bridging tasks. *)
(* BridgeSpec the byte pumps: bridge_with_stats, the connect-side pump and  *)
(*            bridge_stream_to_tcp.                                         *)
(* LoopSpec   every arm of the control loop: stats tick, commands with the  *)
(*            Connect retry loop, inbound tunnel and secrets substreams,    *)
(*            local TCP accepts, network events and the swarm poll.         *)
(* StatsSpec  the traffic counters under bridging tasks and stats ticks.    *)
(* ConnectSpec the commands that can fail: Connect and Share.               *)
(* ShareSpec  the share-state under Share commands of every kind.           *)
(* PollSpec   the swarm poll arm under a command channel kept full, with    *)
(*            the fairness of the unbiased select.                          *)
(* PeerSpec   the peer table and the lifecycle events of the peer network.  *)
(* PureSpec   the pure functions: the secrets frame reader, the secrets     *)
(*            encryption and the rift links.                                *)
(* IdentitySpec Identity::load_or_generate over the identity file.          *)
(* EnvSpec    the env-file parser and writer of EnvVault.                    *)
(* EventSpec  the daemon's event channel and take_event_receiver.            *)
(* ProxySpec  TunnelProxy::handle_local_connection and its stream handlers.  *)
EXTENDS Integers, Sequences, FiniteSets, TLC

(***************************************************************************)
(* Bounds of the model.                                                    *)
(***************************************************************************)
\* inbound tunnel substreams that arrive during a run
MaxStreams == 2
\* commands the driver sends during a run
MaxCmds == 2
\* chunks a bridging task of the control-loop model copies in total
MaxBytes == 1

\* bytes offered to each end of a bridge
MaxLen == 2
\* the read buffer of a copy loop, in bytes (8192 in the code)
MaxChunk == 2

\* stats ticks during a run
MaxTicks == 2
\* inbound secrets substreams that arrive during a run
MaxSecrets == 1
\* local TCP connections made to the connect-side listener during a run
MaxConns == 1
\* swarm events that produce a NetworkEvent during a run
MaxSwarm == 1
\* connections the swarm has to one peer at a time
MaxConnsPerPeer == 2
\* swarm events other than quiet ones during a run of the peer table
MaxNet == 3

\* calls of take_event_receiver during a run
MaxTakes == 2
\* events the daemon emits during a run of the event channel
MaxEmits == 5
\* events the event channel holds (256 in the code)
MaxQueued == 2

\* local connections handed to the TunnelProxy during a run
MaxProxyStreams == 3

\* characters of an env file
MaxEnvLen == 6

\* calls of load_or_generate on one path during a run
MaxLoads == 3
\* keypairs that generate() can draw
MaxKeys == 2

\* inputs of all kinds the environment gives during a run of the whole loop
MaxInputs == 3

\* `let max_retries = 20`
max_retries == 20

Peers == {"p1", "p2"}
Ports == {3000}
LocalPorts == {8080}
StreamIds == 1..MaxStreams
SecretIds == 1..MaxSecrets
ConnIds == 1..MaxConns

\* the peers that swarm events and rift links name
NetPeers == {"p1"}

\* the link of a Connect command: the rift link of a peer, or text that
\* parse_rift_link rejects
Links == NetPeers \cup {"garbage"}

\* secrets_path of a Share command: absent, a file that loads, a file that does not
SecretsPaths == {"none", "good", "bad"}

(***************************************************************************)
(* DaemonCommand, as the driver can send it.  Every command is a record of *)
(* the same shape; the fields a variant does not have hold "-", {} or      *)
(* FALSE.                                                                  *)
(***************************************************************************)
Cmd(t, p, port, sp, aa) ==
    [type |-> t, peer_id |-> p, port |-> port, secrets_path |-> sp, auto_approve |-> aa]

DaemonCommand ==
    { Cmd("Share", "-", {port}, sp, aa) : port \in Ports, sp \in SecretsPaths, aa \in BOOLEAN }
    \cup { Cmd("ApproveConnection", p, {}, "none", FALSE) : p \in Peers }
    \cup { Cmd("DenyConnection", p, {}, "none", FALSE) : p \in Peers }
    \cup { Cmd("StopSession", "-", {}, "none", FALSE),
           Cmd("Shutdown", "-", {}, "none", FALSE) }

\* DaemonCommand::Connect{link, port, local_port}; bind_addr is not modelled
ConnectCmd(l, port, lport) ==
    [type |-> "Connect", peer_id |-> "-", port |-> port, secrets_path |-> "none",
     auto_approve |-> FALSE, link |-> l, local_port |-> lport]

ConnectCommand ==
    { ConnectCmd(l, {port}, lport) :
        l \in Links, port \in Ports, lport \in {{}} \cup {{x} : x \in LocalPorts} }

\* the commands of the approval gate: Share without a secrets file, the two
\* replies, StopSession and Shutdown
GateCommand == { c \in DaemonCommand : c.secrets_path = "none" }

\* DaemonEvent, as far as the control loop of this model emits it
Ev(t, p) == [type |-> t, peer_id |-> p]

\* DaemonEvent::Error{message}, the message cut down to its fixed head
ErrorEv(m) == [type |-> "Error", peer_id |-> "-", message |-> m]

\* DaemonEvent::TunnelEstablished{peer_id, port}
TunnelEv(p, port) == [type |-> "TunnelEstablished", peer_id |-> p, port |-> port]

\* DaemonEvent::StatsUpdate{bytes_sent, bytes_received, active_connections}
StatsEv(bs, br_, ac) ==
    [type |-> "StatsUpdate", peer_id |-> "-", bytes_sent |-> bs,
     bytes_received |-> br_, active_connections |-> ac]

VARIABLES
    running,            \* DaemonServer.running
    share_port,         \* run: share_port, {} for None, {port} for Some(port)
    auto_approve,       \* run: auto_approve
    share_secrets,      \* run: share_secrets is Some(vault)
    pending_approvals,  \* DaemonServer.pending_approvals: peer_id -> the substream
                        \*   whose one-shot sender the entry holds
    chan,               \* the one-shot approval channel of each substream
    command_rx,         \* the command channel, oldest first
    incoming_streams,   \* accepted inbound tunnel substreams, oldest first
    pc,                 \* where the control loop is: "select", "await", "connect",
                        \*   "done"
    waiting,            \* the substream whose approval the loop awaits, {} if none
    events,             \* what was sent on event_tx, oldest first
    task,               \* the bridging task of each substream
    taskPort,           \* the port moved into each bridging task, {} if none
    bytes_sent,         \* TrafficStats.bytes_sent
    bytes_received,     \* TrafficStats.bytes_received
    active_connections, \* TrafficStats.active_connections
    streamPeer,         \* the peer each substream came from
    nextStream,         \* substreams that have arrived so far
    sentCmds,           \* commands the driver has sent so far
    outcomes,           \* history: the outcomes each substream has had
    approveInTime,      \* history: substreams for whose peer ApproveConnection was
                        \*   sent while their approval was awaited
    denyInTime          \* history: the same for DenyConnection

daemonVars ==
    << running, share_port, auto_approve, share_secrets, pending_approvals, chan,
       command_rx, incoming_streams, pc, waiting, events, task, taskPort, bytes_sent,
       bytes_received, active_connections, streamPeer, nextStream, sentCmds,
       outcomes, approveInTime, denyInTime >>

VARIABLES
    connect_info,     \* run: connect_info, {} for None, {[peer_id, port, local]}
    connecting,       \* the Connect command whose handler runs, {} if none
    retry_count,      \* the handler's retry_count
    attempts,         \* history: network.connect calls of the handler that runs
                      \*   or ran last
    swarm_event,      \* the event the swarm has ready, {} if it has none
    swarmSeen,        \* swarm events with a NetworkEvent produced so far
    network_rx,       \* the NetworkEvent channel, oldest first
    incoming_secrets, \* accepted inbound secrets substreams, oldest first
    secret,           \* what became of each secrets substream
    nextSecret,       \* secrets substreams that have arrived so far
    nextConn,         \* local TCP connections made so far
    accepted,         \* local TCP connections taken from the listener, or lost
                      \*   with a listener that was replaced
    ctask,            \* the connect-side task of each local TCP connection
    ticks,            \* stats ticks so far
    peers,            \* PeerNetwork.peers: peer_id -> the addresses of its
                      \*   PeerInfo, "none" for the empty list
    established,      \* the connections the swarm has to each peer
    polled            \* history: the poll_once arm was taken with a command
                      \*   ready in the command channel

loopVars ==
    << connect_info, connecting, retry_count, attempts, swarm_event, swarmSeen,
       network_rx, incoming_secrets, secret, nextSecret, nextConn, accepted, ctask,
       ticks, peers, established, polled >>

VARIABLES
    kind,       \* which bridge runs: "with_stats", "pump" or "copy"
    data,       \* per direction, the bytes offered at the source end
    srcClosed,  \* per direction, the source end was closed after its bytes
    pos,        \* per direction, the bytes read from the source so far
    buf,        \* per direction, the loop's read buffer
    nread,      \* per direction, the n of the last read
    lp,         \* per direction, the copy loop: "read", "write", "done"
    written,    \* per direction, the bytes written to the destination so far
    errored,    \* history: per direction, an I/O error ended the loop
    br          \* the bridge: "idle", "dial", "run", "returned", "failed"

bridgeVars == << kind, data, srcClosed, pos, buf, nread, lp, written, errored, br >>

VARIABLES
    call,       \* the pure function under evaluation and its arguments
    ret,        \* what it returned, NoRet before it has
    file,       \* the identity file at `path`: Absent, or its bytes
    evch,       \* the daemon's event channels, see EventInit
    proxy,      \* the TunnelProxy and its stream handlers, see ProxyInit
    loaded      \* the calls of load_or_generate(path) in order: what each returned
                \* and whether it found a file

pureVars == << call, ret, file, loaded, evch, proxy >>

vars == << daemonVars, loopVars, bridgeVars, pureVars >>

\* the two copy loops: TCP to substream (send_task), substream to TCP (recv_task)
Dirs == {"toStream", "toTcp"}

\* the bytes each end can offer; the two ends use different bytes
Alphabet(d) == IF d = "toStream" THEN {1, 2} ELSE {3, 4}

BridgeKinds == {"with_stats", "pump", "copy"}

\* sequences over S of length at most n
SeqsUpTo(S, n) == UNION { [1..k -> S] : k \in 0..n }

\* `let mut buf = [0u8; 8192]`
ZeroBuf == [i \in 1..MaxChunk |-> 0]

\* no bridge is modelled
BridgeIdle ==
    /\ kind = "with_stats"
    /\ data = [d \in Dirs |-> << >>]
    /\ srcClosed = [d \in Dirs |-> FALSE]
    /\ pos = [d \in Dirs |-> 0]
    /\ buf = [d \in Dirs |-> ZeroBuf]
    /\ nread = [d \in Dirs |-> 0]
    /\ lp = [d \in Dirs |-> "read"]
    /\ written = [d \in Dirs |-> << >>]
    /\ errored = [d \in Dirs |-> FALSE]
    /\ br = "idle"

\* no call of a pure function is modelled
NoCall == [fn |-> "none"]
NoRet == [tag |-> "none"]
\* no file at the path
Absent == [exists |-> FALSE, bytes |-> << >>]
\* the event channels are not modelled
NoChannels == [daemon |-> "none"]
\* no TunnelProxy is modelled
NoProxy == [streams |-> {}]
PureIdle ==
    /\ call = NoCall
    /\ ret = NoRet
    /\ file = Absent
    /\ loaded = << >>
    /\ evch = NoChannels
    /\ proxy = NoProxy

\* the locals of run() and the peer network before the first select
LoopInit ==
    /\ connect_info = {}
    /\ connecting = {}
    /\ retry_count = 0
    /\ attempts = 0
    /\ swarm_event = {}
    /\ swarmSeen = 0
    /\ network_rx = << >>
    /\ incoming_secrets = << >>
    /\ secret = [x \in SecretIds |-> "none"]
    /\ nextSecret = 0
    /\ nextConn = 0
    /\ accepted = 0
    /\ ctask = [c \in ConnIds |-> "none"]
    /\ ticks = 0
    /\ peers = << >>
    /\ established = [p \in NetPeers |-> 0]
    /\ polled = FALSE

(***************************************************************************)
(* The state after DaemonServer::new, start() and the first lines of run().*)
(***************************************************************************)
DaemonInit ==
    /\ LoopInit
    /\ running = TRUE
    /\ share_port = {}
    /\ auto_approve = FALSE
    /\ share_secrets = FALSE
    /\ pending_approvals = << >>
    /\ chan = [s \in StreamIds |-> "none"]
    /\ command_rx = << >>
    /\ incoming_streams = << >>
    /\ pc = "select"
    /\ waiting = {}
    /\ events = << >>
    /\ task = [s \in StreamIds |-> "none"]
    /\ taskPort = [s \in StreamIds |-> {}]
    /\ bytes_sent = 0
    /\ bytes_received = 0
    /\ active_connections = 0
    /\ streamPeer = [s \in StreamIds |-> "-"]
    /\ nextStream = 0
    /\ sentCmds = 0
    /\ outcomes = [s \in StreamIds |-> {}]
    /\ approveInTime = {}
    /\ denyInTime = {}

Init == DaemonInit /\ BridgeIdle /\ PureIdle

(***************************************************************************)
(* HashMap::insert and HashMap::remove on the pending-approval table.      *)
(***************************************************************************)
InsertEntry(tbl, p, s) ==
    [q \in (DOMAIN tbl) \cup {p} |-> IF q = p THEN s ELSE tbl[q]]

RemoveEntry(tbl, p) ==
    [q \in (DOMAIN tbl) \ {p} |-> tbl[q]]

(***************************************************************************)
(* oneshot::Sender::send(v): the value reaches a receiver that still       *)
(* waits; with the receiver gone the send fails and the error is ignored.  *)
(***************************************************************************)
SendReply(ch, s, v) ==
    IF ch[s] = "open" THEN [ch EXCEPT ![s] = v] ELSE ch

\* dropping a one-shot sender that never sent: the receiver sees the channel closed
DropSender(ch, s) ==
    IF ch[s] = "open" THEN [ch EXCEPT ![s] = "closed"] ELSE ch

(***************************************************************************)
(* The match on tokio::time::timeout(30 s, approval_rx).await: what the    *)
(* wait yields for each state of the one-shot channel.  "open" at the time *)
(* the wait ends means the deadline expired.                               *)
(***************************************************************************)
\* faulty variant: the arms of a closed channel and of an expired deadline mixed up
WaitOutcomeNoDeadline(c) ==
    CASE c = "true"   -> "approved"
      [] c = "false"  -> "denied"
      [] OTHER        -> "closed"

WaitOutcome(c) ==
    CASE c = "true"   -> "approved"
      [] c = "false"  -> "denied"
      [] c = "closed" -> "closed"
      [] OTHER        -> "timeout"

\* faulty variant: everything but an explicit denial counts as approved
ApprovalResultUnlessDenied(c) == WaitOutcome(c) # "denied"

ApprovalResult(c) == WaitOutcome(c) = "approved"

\* faulty variant: the timeout arm forgets to remove the entry
TableKept(tbl, c, p) == tbl

\* the table after the wait: only the timeout arm removes the peer's entry
TableAfterWait(tbl, c, p) ==
    IF WaitOutcome(c) = "timeout" THEN RemoveEntry(tbl, p) ELSE tbl

(***************************************************************************)
(* The environment: the driver sends a command; the peer network accepts   *)
(* an inbound tunnel substream.                                            *)
(***************************************************************************)
AwaitedFrom(p) == { s \in waiting : pc = "await" /\ streamPeer[s] = p }

DriverSend(c) ==
    /\ sentCmds < MaxCmds
    /\ sentCmds' = sentCmds + 1
    /\ command_rx' = Append(command_rx, c)
    /\ approveInTime' = IF c.type = "ApproveConnection"
                           THEN approveInTime \cup AwaitedFrom(c.peer_id)
                           ELSE approveInTime
    /\ denyInTime' = IF c.type = "DenyConnection"
                        THEN denyInTime \cup AwaitedFrom(c.peer_id)
                        ELSE denyInTime
    /\ UNCHANGED << running, share_port, auto_approve, share_secrets,
                    pending_approvals, chan, incoming_streams, pc, waiting, events,
                    task, taskPort, bytes_sent, bytes_received, active_connections,
                    streamPeer, nextStream, outcomes >>
    /\ UNCHANGED << loopVars, bridgeVars, pureVars >>

StreamArrives(p) ==
    /\ pc # "done"
    /\ nextStream < MaxStreams
    /\ nextStream' = nextStream + 1
    /\ streamPeer' = [streamPeer EXCEPT ![nextStream + 1] = p]
    /\ incoming_streams' = Append(incoming_streams, nextStream + 1)
    /\ UNCHANGED << running, share_port, auto_approve, share_secrets,
                    pending_approvals, chan, command_rx, pc, waiting, events, task,
                    taskPort, bytes_sent, bytes_received, active_connections,
                    sentCmds, outcomes, approveInTime, denyInTime >>
    /\ UNCHANGED << loopVars, bridgeVars, pureVars >>

(***************************************************************************)
(* The control loop, `while self.running { tokio::select! { ... } }`.  The *)
(* select is unbiased: any ready arm may be taken.  An arm's handler runs  *)
(* inside the loop task, so while a handler awaits no other arm is polled. *)
(***************************************************************************)

\* DaemonCommand::Share
HandleShare(c) ==
    /\ share_port' = c.port
    /\ auto_approve' = c.auto_approve
    /\ share_secrets' = IF c.secrets_path = "good" THEN TRUE ELSE share_secrets
    /\ events' = IF c.secrets_path = "bad"
                   THEN Append(events, ErrorEv("Failed to load secrets"))
                   ELSE events
    /\ UNCHANGED << running, pending_approvals, chan >>

\* faulty variant: a reply that finds no entry is reported with an Error event
HandleReplyReportsMiss(c, v) ==
    /\ IF c.peer_id \in DOMAIN pending_approvals
         THEN /\ pending_approvals' = RemoveEntry(pending_approvals, c.peer_id)
              /\ chan' = SendReply(chan, pending_approvals[c.peer_id], v)
              /\ UNCHANGED events
         ELSE /\ events' = Append(events, ErrorEv("No pending request"))
              /\ UNCHANGED << pending_approvals, chan >>
    /\ UNCHANGED << running, share_port, auto_approve, share_secrets >>

\* DaemonCommand::ApproveConnection (v = "true") and DenyConnection (v = "false")
HandleReply(c, v) ==
    /\ IF c.peer_id \in DOMAIN pending_approvals
         THEN /\ pending_approvals' = RemoveEntry(pending_approvals, c.peer_id)
              /\ chan' = SendReply(chan, pending_approvals[c.peer_id], v)
         ELSE UNCHANGED << pending_approvals, chan >>
    /\ UNCHANGED << running, share_port, auto_approve, share_secrets, events >>

\* faulty variant: the running flag is left set
HandleShutdownIgnored ==
    UNCHANGED << running, share_port, auto_approve, share_secrets,
                 pending_approvals, chan, events >>

\* DaemonCommand::Shutdown
HandleShutdown ==
    /\ running' = FALSE
    /\ UNCHANGED << share_port, auto_approve, share_secrets, pending_approvals,
                    chan, events >>

\* DaemonCommand::StopSession
HandleStopSession ==
    UNCHANGED << running, share_port, auto_approve, share_secrets,
                 pending_approvals, chan, events >>

\* DaemonCommand::Connect, up to the retry loop: `retry_count = 0`
HandleConnect(c) ==
    /\ pc' = "connect"
    /\ connecting' = {c}
    /\ retry_count' = 0
    /\ attempts' = 0
    /\ UNCHANGED << running, share_port, auto_approve, share_secrets,
                    pending_approvals, chan, events >>

\* the arm `Some(command) = self.command_rx.recv()`
HandleCommand ==
    /\ pc = "select"
    /\ running
    /\ command_rx # << >>
    /\ command_rx' = Tail(command_rx)
    /\ LET c == Head(command_rx) IN
         IF c.type = "Connect"
           THEN HandleConnect(c)
           ELSE /\ UNCHANGED << pc, connecting, retry_count, attempts >>
                /\ CASE c.type = "Share"             -> HandleShare(c)
                     [] c.type = "ApproveConnection" -> HandleReply(c, "true")
                     [] c.type = "DenyConnection"    -> HandleReply(c, "false")
                     [] c.type = "Shutdown"          -> HandleShutdown
                     [] OTHER                        -> HandleStopSession
    /\ UNCHANGED << incoming_streams, waiting, task, taskPort, bytes_sent,
                    bytes_received, active_connections, streamPeer, nextStream,
                    sentCmds, outcomes, approveInTime, denyInTime >>
    /\ UNCHANGED << connect_info, swarm_event, swarmSeen, network_rx,
                    incoming_secrets, secret, nextSecret, nextConn, accepted, ctask,
                    ticks, peers, established,
                    polled, bridgeVars, pureVars >>

\* tokio::spawn of the bridging task of substream s, `port` moved into it
SpawnBridge(tk, s) == [tk EXCEPT ![s] = "spawned"]

\* faulty variant: the substream is bridged whatever `approved` is
DecideAlways(tk, s, approved) == SpawnBridge(tk, s)

\* what becomes of substream s once `approved` is known
Decide(tk, s, approved) == IF approved THEN SpawnBridge(tk, s) ELSE tk

\* faulty variant: the handler does not look at share_port
ShareActiveAlways(sp) == TRUE

\* `if let Some(port) = share_port`
ShareActive(sp) == sp # {}

\* faulty variant: the approval request is made even with auto_approve
ApprovalNeededAlways(aa) == TRUE

\* `if auto_approve { true } else { request approval }`
ApprovalNeeded(aa) == ~aa

(***************************************************************************)
(* The arm `Some((peer_id, stream)) = incoming_streams.next()`, up to its  *)
(* first suspension: without share-state the substream is dropped; with    *)
(* auto_approve it is bridged; otherwise the one-shot sender is put in the *)
(* table, IncomingConnectionRequest is emitted and the handler awaits.     *)
(***************************************************************************)
InboundTunnel ==
    /\ pc = "select"
    /\ running
    /\ incoming_streams # << >>
    /\ incoming_streams' = Tail(incoming_streams)
    /\ LET s == Head(incoming_streams)
           p == streamPeer[s]
       IN  CASE ~ShareActive(share_port) ->
                  /\ outcomes' = [outcomes EXCEPT ![s] = @ \cup {"noshare"}]
                  /\ UNCHANGED << pending_approvals, chan, pc, waiting, events,
                                  task, taskPort >>
             [] ShareActive(share_port) /\ ~ApprovalNeeded(auto_approve) ->
                  /\ outcomes' = [outcomes EXCEPT ![s] = @ \cup {"auto"}]
                  /\ task' = Decide(task, s, TRUE)
                  /\ taskPort' = [taskPort EXCEPT ![s] = share_port]
                  /\ UNCHANGED << pending_approvals, chan, pc, waiting, events >>
             [] OTHER ->
                  /\ chan' = [ IF p \in DOMAIN pending_approvals
                                 THEN DropSender(chan, pending_approvals[p])
                                 ELSE chan
                               EXCEPT ![s] = "open" ]
                  /\ pending_approvals' = InsertEntry(pending_approvals, p, s)
                  /\ events' = Append(events, Ev("IncomingConnectionRequest", p))
                  /\ pc' = "await"
                  /\ waiting' = {s}
                  /\ taskPort' = [taskPort EXCEPT ![s] = share_port]
                  /\ UNCHANGED << task, outcomes >>
    /\ UNCHANGED << running, share_port, auto_approve, share_secrets, command_rx,
                    bytes_sent, bytes_received, active_connections, streamPeer,
                    nextStream, sentCmds, approveInTime, denyInTime >>
    /\ UNCHANGED << loopVars, bridgeVars, pureVars >>

(***************************************************************************)
(* The handler resumes from timeout(30 s, approval_rx).await: with a reply *)
(* or a closed channel at once, otherwise when the deadline expires.  Then *)
(* `if approved { spawn } else { drop(stream) }`.                          *)
(***************************************************************************)
ApprovalWait ==
    /\ pc = "await"
    /\ \E s \in waiting :
         /\ outcomes' = [outcomes EXCEPT ![s] = @ \cup {WaitOutcome(chan[s])}]
         /\ pending_approvals' = TableAfterWait(pending_approvals, chan[s], streamPeer[s])
         /\ task' = Decide(task, s, ApprovalResult(chan[s]))
         /\ chan' = [chan EXCEPT ![s] = "dropped"]
    /\ pc' = "select"
    /\ waiting' = {}
    /\ UNCHANGED << running, share_port, auto_approve, share_secrets, command_rx,
                    incoming_streams, events, taskPort, bytes_sent, bytes_received,
                    active_connections, streamPeer, nextStream, sentCmds,
                    approveInTime, denyInTime >>
    /\ UNCHANGED << loopVars, bridgeVars, pureVars >>

\* after the loop: network.shutdown() and the Shutdown event
Cleanup ==
    /\ pc = "select"
    /\ ~running
    /\ pc' = "done"
    /\ events' = Append(events, Ev("Shutdown", "-"))
    /\ UNCHANGED << running, share_port, auto_approve, share_secrets,
                    pending_approvals, chan, command_rx, incoming_streams, waiting,
                    task, taskPort, bytes_sent, bytes_received, active_connections,
                    streamPeer, nextStream, sentCmds, outcomes, approveInTime,
                    denyInTime >>
    /\ UNCHANGED << loopVars, bridgeVars, pureVars >>

(***************************************************************************)
(* A spawned bridging task: count the connection, dial the local port, run *)
(* bridge_with_stats, uncount the connection.                              *)
(***************************************************************************)
taskFrame ==
    << running, share_port, auto_approve, share_secrets, pending_approvals, chan,
       command_rx, incoming_streams, pc, waiting, events, taskPort, streamPeer,
       nextStream, sentCmds, outcomes, approveInTime, denyInTime, loopVars,
       bridgeVars, pureVars >>

\* faulty variant: the gauge is not decreased when the task failed
GaugeAfterEndOkOnly(ac, st) == IF st = "failed" THEN ac ELSE ac - 1

\* stats.active_connections.fetch_sub(1) at the end of a task, whatever its result
GaugeAfterEnd(ac, st) == ac - 1

\* stats.active_connections.fetch_add(1)
TaskStart(s) ==
    /\ task[s] = "spawned"
    /\ task' = [task EXCEPT ![s] = "started"]
    /\ active_connections' = active_connections + 1
    /\ UNCHANGED << taskFrame, bytes_sent, bytes_received >>

\* TcpStream::connect("127.0.0.1:<port>") succeeds or fails with ProxyError
TaskDial(s, ok) ==
    /\ task[s] = "started"
    /\ task' = [task EXCEPT ![s] = IF ok THEN "bridging" ELSE "failed"]
    /\ UNCHANGED << taskFrame, bytes_sent, bytes_received, active_connections >>

\* faulty variant: the counter is decreased
FetchSub(v, n) == v - n

\* AtomicU64::fetch_add(n) on a byte counter
FetchAdd(v, n) == v + n

\* one chunk copied by send_task (TCP to substream) or recv_task (substream to TCP)
TaskCopy(s, toStream) ==
    /\ task[s] = "bridging"
    /\ bytes_sent + bytes_received < MaxBytes
    /\ bytes_sent' = IF toStream THEN FetchAdd(bytes_sent, 1) ELSE bytes_sent
    /\ bytes_received' = IF toStream THEN bytes_received ELSE FetchAdd(bytes_received, 1)
    /\ UNCHANGED << taskFrame, task, active_connections >>

\* bridge_with_stats returned, Ok or Err: stats.active_connections.fetch_sub(1)
TaskEnd(s) ==
    /\ task[s] \in {"bridging", "failed"}
    /\ task' = [task EXCEPT ![s] = "ended"]
    /\ active_connections' = GaugeAfterEnd(active_connections, task[s])
    /\ UNCHANGED << taskFrame, bytes_sent, bytes_received >>

Next ==
    \/ \E c \in GateCommand : DriverSend(c)
    \/ \E p \in Peers : StreamArrives(p)
    \/ HandleCommand
    \/ InboundTunnel
    \/ ApprovalWait
    \/ Cleanup
    \/ \E s \in StreamIds : TaskStart(s)
    \/ \E s \in StreamIds, ok \in BOOLEAN : TaskDial(s, ok)
    \/ \E s \in StreamIds, toStream \in BOOLEAN : TaskCopy(s, toStream)
    \/ \E s \in StreamIds : TaskEnd(s)

Spec == Init /\ [][Next]_vars

(***************************************************************************)
(* The approval gate.                                                      *)
(***************************************************************************)
\* the control loop takes substream s from the queue of inbound substreams
Taken(s) ==
    /\ pc = "select"
    /\ incoming_streams # << >>
    /\ Head(incoming_streams) = s
    /\ incoming_streams' = Tail(incoming_streams)

\* the approval wait of substream s ends in this step
WaitEnds(s) == s \in waiting /\ s \notin waiting'

\* an approval was requested for substream s
Asked(s) == chan[s] # "none"

\* the approval of substream s was requested and its wait is over
WaitOver(s) == Asked(s) /\ s \notin waiting

Refused == {"denied", "timeout", "closed"}
Verdicts == {"approved", "denied", "timeout"}

\* the pending-approval table holds the one-shot sender of substream s
HoldsEntry(s) == \E p \in DOMAIN pending_approvals : pending_approvals[p] = s

\* C1: a bridging task is spawned for an inbound tunnel substream only when
\* auto_approve is set in the share-state or the substream's approval wait got
\* the reply true; the step in which a substream is denied, times out or finds
\* its reply channel closed spawns no bridging task and leaves
\* active_connections alone, and no task is spawned for it later.
C1_BridgedOnlyIfApproved ==
    /\ [][ \A s \in StreamIds :
             /\ (task[s] = "none" /\ task'[s] # "none") =>
                  \/ (Taken(s) /\ share_port # {} /\ auto_approve)
                  \/ (WaitEnds(s) /\ chan[s] = "true")
             /\ (outcomes[s] \cap Refused = {} /\ outcomes'[s] \cap Refused # {}) =>
                  /\ task'[s] = "none"
                  /\ active_connections' = active_connections ]_vars
    /\ [](\A s \in StreamIds : outcomes[s] \cap Refused # {} => task[s] = "none")

\* one substream was dropped on timeout, another was bridged under auto_approve
C1_Witness ==
    \E s, t \in StreamIds :
        /\ "timeout" \in outcomes[s] /\ task[s] = "none"
        /\ "auto" \in outcomes[t] /\ task[t] = "bridging"

\* C2: with auto_approve off, when the driver sends ApproveConnection for the
\* peer of a substream while that substream's approval is awaited (after
\* IncomingConnectionRequest, before the deadline) and sends no DenyConnection,
\* the wait ends approved and a bridging task is spawned for the substream.
C2_ApproveInTimeBridges ==
    \A s \in StreamIds :
        (WaitOver(s) /\ s \in approveInTime /\ s \notin denyInTime) =>
            /\ outcomes[s] = {"approved"}
            /\ task[s] # "none"

\* C3: a substream that is not auto-approved has no outcome while its approval
\* is awaited and exactly one of approved, denied, timed-out once the wait is
\* over; the step that ends the wait leaves no entry for the substream's peer
\* in the pending-approval table, and the table never holds the substream's
\* sender afterwards.
C3_ExactlyOneOutcome ==
    /\ [](\A s \in StreamIds :
            /\ (Asked(s) /\ s \in waiting) => outcomes[s] = {}
            /\ WaitOver(s) =>
                 /\ Cardinality(outcomes[s] \cap Verdicts) = 1
                 /\ outcomes[s] \subseteq Verdicts
                 /\ ~HoldsEntry(s))
    /\ [][ \A s \in StreamIds :
             WaitEnds(s) => streamPeer[s] \notin DOMAIN pending_approvals' ]_vars

\* the approval wait of a substream is over and the table is empty
C3_Witness ==
    \E s \in StreamIds :
        /\ WaitOver(s)
        /\ outcomes[s] \cap Verdicts # {}
        /\ pending_approvals = << >>

\* C4: with auto_approve off, a substream for whose peer the driver sent
\* neither ApproveConnection nor DenyConnection while its approval was awaited
\* ends timed out: the peer's pending-approval entry is removed and the
\* substream is dropped without a bridging task.
C4_TimeoutDenies ==
    \A s \in StreamIds :
        (WaitOver(s) /\ s \notin approveInTime /\ s \notin denyInTime) =>
            /\ outcomes[s] = {"timeout"}
            /\ ~HoldsEntry(s)
            /\ task[s] = "none"

\* a substream timed out with no reply sent during its wait
C4_Witness ==
    \E s \in StreamIds :
        /\ WaitOver(s)
        /\ s \notin approveInTime \cup denyInTime
        /\ outcomes[s] = {"timeout"}
        /\ task[s] = "none"

\* a Share command with auto_approve set is being handled
SharesAuto ==
    /\ pc = "select"
    /\ command_rx # << >>
    /\ Head(command_rx).type = "Share"
    /\ Head(command_rx).auto_approve
    /\ command_rx' = Tail(command_rx)

\* C5: auto_approve is off at start and is turned on only by handling a Share
\* command that sets it; with a share-state whose auto_approve is set, taking
\* an inbound tunnel substream inserts no pending-approval entry, creates no
\* reply channel, emits no event, and spawns the bridging task in the same
\* step without entering the approval wait.
C5_AutoApproveBypasses ==
    /\ ~auto_approve
    /\ [][ /\ (~auto_approve /\ auto_approve') => SharesAuto
           /\ \A s \in StreamIds :
                (Taken(s) /\ share_port # {} /\ auto_approve) =>
                    /\ pending_approvals' = pending_approvals
                    /\ chan' = chan
                    /\ events' = events
                    /\ task'[s] = "spawned"
                    /\ pc' = "select" ]_vars

\* a substream was bridged under auto_approve and no event was ever emitted
C5_Witness ==
    \E s \in StreamIds :
        /\ "auto" \in outcomes[s]
        /\ task[s] # "none"
        /\ ~Asked(s)
        /\ events = << >>

\* C6: while no Share command has recorded a share-state, taking an inbound
\* tunnel substream inserts no approval entry, emits no event, spawns no
\* bridging task and leaves the traffic counters alone; no bridging task is
\* spawned for that substream later either.
C6_NoShareDrops ==
    /\ [][ \A s \in StreamIds :
             (Taken(s) /\ share_port = {}) =>
                 /\ UNCHANGED << pending_approvals, chan, events, task, bytes_sent,
                                 bytes_received, active_connections >>
                 /\ pc' = "select" ]_vars
    /\ [](\A s \in StreamIds :
            "noshare" \in outcomes[s] => (task[s] = "none" /\ ~Asked(s)))

\* a substream arrived with no share-state and was dropped
C6_Witness ==
    \E s \in StreamIds : "noshare" \in outcomes[s] /\ task[s] = "none"

\* C7: every entry of the pending-approval table holds the sender of the one
\* substream whose approval the control loop currently awaits, filed under
\* that substream's peer; while a substream's request is open its entry is not
\* replaced by another substream's, and it leaves the table only through a
\* reply command or the end of that substream's own wait.
C7_OneRequestPerSubstream ==
    /\ [](\A p \in DOMAIN pending_approvals :
            LET s == pending_approvals[p] IN
              /\ pc = "await"
              /\ waiting = {s}
              /\ streamPeer[s] = p
              /\ chan[s] = "open"
              /\ outcomes[s] = {})
    /\ [][ \A p \in DOMAIN pending_approvals :
             LET s == pending_approvals[p] IN
               /\ p \in DOMAIN pending_approvals' => pending_approvals'[p] = s
               /\ p \notin DOMAIN pending_approvals' =>
                    \/ WaitEnds(s)
                    \/ (pc = "select" /\ command_rx # << >>
                          /\ Head(command_rx).peer_id = p) ]_vars

\* a request is pending while a later substream from the same peer is queued
C7_Witness ==
    \E p \in DOMAIN pending_approvals :
        \E i \in 1..Len(incoming_streams) :
            streamPeer[incoming_streams[i]] = p

(***************************************************************************)
(* The other arms of the control loop and what feeds them.                 *)
(***************************************************************************)
\* the daemon's variables that only the approval gate and its tasks change
gateFrame ==
    << running, share_port, auto_approve, share_secrets, pending_approvals, chan,
       command_rx, incoming_streams, waiting, task, taskPort, streamPeer,
       nextStream, sentCmds, outcomes, approveInTime, denyInTime, bridgeVars, pureVars >>

\* SwarmEvent, as far as handle_swarm_event tells its variants apart
SwEv(k, p) == [kind |-> k, peer_id |-> p]
QuietEvent == SwEv("Other", "-")
SwarmKinds == {"ConnectionEstablished", "ConnectionClosed", "Identify", "Dcutr"}
SwarmEvents ==
    {QuietEvent, SwEv("NewListenAddr", "-")}
    \cup { SwEv(k, p) : k \in SwarmKinds, p \in NetPeers }

\* the swarm events of the runs of the control loop
LoopSwarmEvents ==
    {QuietEvent} \cup { SwEv(k, p) : k \in {"ConnectionEstablished", "Dcutr"}, p \in NetPeers }

\* handle_swarm_event: the NetworkEvent sent for a swarm event, if any
NetworkEventOf(e) ==
    CASE e.kind = "NewListenAddr"         -> << Ev("Listening", "-") >>
      [] e.kind = "ConnectionEstablished" -> << Ev("PeerConnected", e.peer_id) >>
      [] e.kind = "ConnectionClosed"      -> << Ev("PeerDisconnected", e.peer_id) >>
      [] e.kind = "Dcutr"                 -> << Ev("HolePunchSucceeded", e.peer_id) >>
      [] OTHER                            -> << >>

\* handle_swarm_event and handle_behaviour_event on PeerNetwork.peers:
\* ConnectionEstablished inserts a fresh PeerInfo, ConnectionClosed removes
\* the peer's PeerInfo, Identify sets the addresses of a PeerInfo that exists
PeersAfter(tbl, e) ==
    CASE e.kind = "ConnectionEstablished" -> InsertEntry(tbl, e.peer_id, "none")
      [] e.kind = "ConnectionClosed"      -> RemoveEntry(tbl, e.peer_id)
      [] e.kind = "Identify" /\ e.peer_id \in DOMAIN tbl
                                          -> InsertEntry(tbl, e.peer_id, "listed")
      [] OTHER                            -> tbl

\* the swarm's connections after it reported e
EstablishedAfter(est, e) ==
    CASE e.kind = "ConnectionEstablished" -> [est EXCEPT ![e.peer_id] = @ + 1]
      [] e.kind = "ConnectionClosed"      -> [est EXCEPT ![e.peer_id] = @ - 1]
      [] OTHER                            -> est

\* events the swarm can report: a connection that closes was established
MayReport(est, e) ==
    CASE e.kind = "ConnectionEstablished" -> est[e.peer_id] < MaxConnsPerPeer
      [] e.kind = "ConnectionClosed"      -> est[e.peer_id] > 0
      [] OTHER                            -> TRUE

\* handle_network_event: the DaemonEvent sent for a NetworkEvent, if any
DaemonEventOf(n) ==
    IF n.type = "HolePunchSucceeded" THEN << >> ELSE << n >>

\* the swarm has an event ready
SwarmProducesUpTo(e, n) ==
    /\ pc # "done"
    /\ swarm_event = {}
    /\ e = QuietEvent \/ swarmSeen < n
    /\ MayReport(established, e)
    /\ swarm_event' = {e}
    /\ swarmSeen' = IF e = QuietEvent THEN swarmSeen ELSE swarmSeen + 1
    /\ established' = EstablishedAfter(established, e)
    /\ UNCHANGED << gateFrame, pc, events, bytes_sent, bytes_received,
                    active_connections, connect_info, connecting, retry_count,
                    attempts, network_rx, incoming_secrets, secret, nextSecret,
                    nextConn, accepted, ctask, ticks,
                    peers, polled >>

SwarmProduces(e) == SwarmProducesUpTo(e, MaxSwarm)

\* the peer network accepts an inbound secrets substream
SecretsArrives ==
    /\ pc # "done"
    /\ nextSecret < MaxSecrets
    /\ nextSecret' = nextSecret + 1
    /\ incoming_secrets' = Append(incoming_secrets, nextSecret + 1)
    /\ secret' = [secret EXCEPT ![nextSecret + 1] = "queued"]
    /\ UNCHANGED << gateFrame, pc, events, bytes_sent, bytes_received,
                    active_connections, connect_info, connecting, retry_count,
                    attempts, swarm_event, swarmSeen, network_rx, nextConn,
                    accepted, ctask, ticks,
                    peers, established, polled >>

\* a local client connects to the listener of connect_info
LocalConnects ==
    /\ pc # "done"
    /\ connect_info # {}
    /\ nextConn < MaxConns
    /\ nextConn' = nextConn + 1
    /\ UNCHANGED << gateFrame, pc, events, bytes_sent, bytes_received,
                    active_connections, connect_info, connecting, retry_count,
                    attempts, swarm_event, swarmSeen, network_rx, incoming_secrets,
                    secret, nextSecret, accepted, ctask, ticks,
                    peers, established, polled >>

\* the arm `_ = stats_interval.tick()`
StatsTick ==
    /\ pc = "select"
    /\ running
    /\ ticks < MaxTicks
    /\ ticks' = ticks + 1
    /\ events' = Append(events, StatsEv(bytes_sent, bytes_received, active_connections))
    /\ UNCHANGED << gateFrame, pc, bytes_sent, bytes_received, active_connections,
                    connect_info, connecting, retry_count, attempts, swarm_event,
                    swarmSeen, network_rx, incoming_secrets, secret, nextSecret,
                    nextConn, accepted, ctask,
                    peers, established, polled >>

\* network.poll_once(): waits for the next swarm event and handles it
PollEffect ==
    /\ swarm_event # {}
    /\ \E e \in swarm_event :
         /\ network_rx' = network_rx \o NetworkEventOf(e)
         /\ peers' = PeersAfter(peers, e)
    /\ swarm_event' = {}

\* a command is ready in the command channel
CommandReady == command_rx # << >>

\* faulty variant: `biased;`, the arms are polled in the order they are
\* written, and an arm is taken only if no arm written before it is ready
SelectTakesBiased(earlierReady) == ~earlierReady

\* tokio::select! without `biased;` starts polling at an arm picked at
\* random: a ready arm can be taken whatever other arms are ready
SelectTakes(earlierReady) == TRUE

\* the arm `_ = network.poll_once()`
PollOnce ==
    /\ pc = "select"
    /\ running
    /\ SelectTakes(CommandReady)
    /\ PollEffect
    /\ polled' = (polled \/ CommandReady)
    /\ UNCHANGED << gateFrame, pc, events, bytes_sent, bytes_received,
                    active_connections, connect_info, connecting, retry_count,
                    attempts, swarmSeen, incoming_secrets, secret, nextSecret,
                    nextConn, accepted, ctask, ticks,
                    established >>

\* the arm `Some(event) = network_rx.recv()`
HandleNetworkEvent ==
    /\ pc = "select"
    /\ running
    /\ network_rx # << >>
    /\ network_rx' = Tail(network_rx)
    /\ events' = events \o DaemonEventOf(Head(network_rx))
    /\ UNCHANGED << gateFrame, pc, bytes_sent, bytes_received, active_connections,
                    connect_info, connecting, retry_count, attempts, swarm_event,
                    swarmSeen, incoming_secrets, secret, nextSecret, nextConn,
                    accepted, ctask, ticks,
                    peers, established, polled >>

\* faulty variant: secrets are served only to auto-approved shares
SecretsArmIfAutoApprove(vault) == IF vault /\ auto_approve THEN "spawned" ELSE "dropped"

\* faulty variant: the answering task is spawned without a vault too
SecretsArmAlways(vault) == "spawned"

\* `if let Some(ref vault) = share_secrets { tokio::spawn(..) } else { warn!(..) }`
SecretsArm(vault) == IF vault THEN "spawned" ELSE "dropped"

\* the arm `Some((peer_id, stream)) = incoming_secrets_streams.next()`: with a
\* vault the answering task is spawned, without one the substream is dropped
InboundSecrets ==
    /\ pc = "select"
    /\ running
    /\ incoming_secrets # << >>
    /\ incoming_secrets' = Tail(incoming_secrets)
    /\ secret' = [secret EXCEPT ![Head(incoming_secrets)] = SecretsArm(share_secrets)]
    /\ UNCHANGED << gateFrame, pc, events, bytes_sent, bytes_received,
                    active_connections, connect_info, connecting, retry_count,
                    attempts, swarm_event, swarmSeen, network_rx, nextSecret,
                    nextConn, accepted, ctask, ticks,
                    peers, established, polled >>

\* the stages of the answering task at which it has something left to do
SecretsRunning == {"spawned", "received", "encrypted", "prefix"}

\* the answering task, one call at a time: receive_secrets reads the request,
\* encrypt_for_peer makes the response, send_secrets writes the length prefix
\* and then the response; the first Err ends the task ("failed" with nothing
\* written, "cut" with only the length prefix written)
SecretsStage(st, ok) ==
    CASE st = "spawned"   -> IF ok THEN "received" ELSE "failed"
      [] st = "received"  -> IF ok THEN "encrypted" ELSE "failed"
      [] st = "encrypted" -> IF ok THEN "prefix" ELSE "failed"
      [] st = "prefix"    -> IF ok THEN "answered" ELSE "cut"
      [] OTHER            -> st

SecretsTask(x, ok) ==
    /\ secret[x] \in SecretsRunning
    /\ secret' = [secret EXCEPT ![x] = SecretsStage(secret[x], ok)]
    /\ UNCHANGED << gateFrame, pc, events, bytes_sent, bytes_received,
                    active_connections, connect_info, connecting, retry_count,
                    attempts, swarm_event, swarmSeen, network_rx, incoming_secrets,
                    nextSecret, nextConn, accepted, ctask, ticks,
                    peers, established, polled >>

(***************************************************************************)
(* The handler of DaemonCommand::Connect.  Each turn of its loop awaits    *)
(* network.poll_once(), which returns when the swarm has had an event, and *)
(* then calls network.connect(&link); a failure with retry_count <         *)
(* max_retries sleeps 250 ms and goes round again.  The loop task does     *)
(* nothing else until the handler is over.                                 *)
(***************************************************************************)
\* faulty variant: one more retry
MayRetryInclusive(rc) == rc <= max_retries

\* `Err(e) if retry_count < max_retries`
MayRetry(rc) == rc < max_retries

\* `local_port.unwrap_or(port)`
LocalOf(c) == IF c.local_port = {} THEN c.port ELSE c.local_port

\* faulty variant: a failed bind clears the connect-state
ConnectInfoCleared(ci, c, bound) ==
    IF bound THEN {[peer_id |-> c.link, port |-> c.port, local |-> LocalOf(c)]} ELSE {}

\* faulty variant: the error is propagated with `?` and run() returns
AfterErrorReturns == "done"

\* where the loop task goes after a handler turned an error into an Error
\* event: back to the select
AfterError == "select"

\* connect_info after TcpListener::bind succeeded or failed
ConnectInfoAfter(ci, c, bound) ==
    IF bound THEN {[peer_id |-> c.link, port |-> c.port, local |-> LocalOf(c)]} ELSE ci

\* one turn of the retry loop: poll_once returns, network.connect(&link)
\* returns Ok or Err; after Ok the listener is bound (or not) and the handler
\* is over; after Err the handler sleeps and goes round again, or gives up
ConnectTurn(ok, bound) ==
    /\ pc = "connect"
    /\ PollEffect
    /\ bound => ok
    /\ attempts' = attempts + 1
    /\ \E c \in connecting :
         /\ ok => c.link \in NetPeers
         /\ IF ok
              THEN /\ connect_info' = ConnectInfoAfter(connect_info, c, bound)
                   /\ events' = Append(events, IF bound
                                                 THEN TunnelEv(c.link, LocalOf(c))
                                                 ELSE ErrorEv("Failed to bind port"))
                   /\ accepted' = IF bound THEN nextConn ELSE accepted
                   /\ pc' = IF bound THEN "select" ELSE AfterError
                   /\ connecting' = {}
                   /\ UNCHANGED retry_count
              ELSE IF MayRetry(retry_count)
                     THEN /\ retry_count' = retry_count + 1
                          /\ UNCHANGED << connect_info, events, accepted, pc,
                                          connecting >>
                     ELSE /\ events' = Append(events, ErrorEv("Failed to connect"))
                          /\ pc' = AfterError
                          /\ connecting' = {}
                          /\ UNCHANGED << connect_info, accepted, retry_count >>
    /\ UNCHANGED << gateFrame, bytes_sent, bytes_received, active_connections,
                    swarmSeen, incoming_secrets, secret, nextSecret, nextConn,
                    ctask, ticks, established, polled >>

(***************************************************************************)
(* The arm of listener.accept() and the connect-side task it spawns: count *)
(* the connection, open a tunnel substream, pump, uncount the connection.  *)
(***************************************************************************)
LocalAccept(ok) ==
    /\ pc = "select"
    /\ running
    /\ connect_info # {}
    /\ accepted < nextConn
    /\ accepted' = accepted + 1
    /\ ctask' = IF ok THEN [ctask EXCEPT ![accepted + 1] = "spawned"] ELSE ctask
    /\ UNCHANGED << gateFrame, pc, events, bytes_sent, bytes_received,
                    active_connections, connect_info, connecting, retry_count,
                    attempts, swarm_event, swarmSeen, network_rx, incoming_secrets,
                    secret, nextSecret, nextConn, ticks,
                    peers, established, polled >>

ctaskFrame ==
    << gateFrame, pc, events, connect_info, connecting, retry_count, attempts,
       swarm_event, swarmSeen, network_rx, incoming_secrets, secret, nextSecret,
       nextConn, accepted, ticks,
       peers, established, polled >>

\* stats.active_connections.fetch_add(1)
CTaskStart(c) ==
    /\ ctask[c] = "spawned"
    /\ ctask' = [ctask EXCEPT ![c] = "started"]
    /\ active_connections' = active_connections + 1
    /\ UNCHANGED << ctaskFrame, bytes_sent, bytes_received >>

\* open_tunnel_stream succeeds or fails
CTaskOpen(c, ok) ==
    /\ ctask[c] = "started"
    /\ ctask' = [ctask EXCEPT ![c] = IF ok THEN "bridging" ELSE "failed"]
    /\ UNCHANGED << ctaskFrame, bytes_sent, bytes_received, active_connections >>

\* one chunk copied by the pump, TCP to substream or substream to TCP
CTaskCopy(c, toStream) ==
    /\ ctask[c] = "bridging"
    /\ bytes_sent + bytes_received < MaxBytes
    /\ bytes_sent' = IF toStream THEN FetchAdd(bytes_sent, 1) ELSE bytes_sent
    /\ bytes_received' = IF toStream THEN bytes_received ELSE FetchAdd(bytes_received, 1)
    /\ UNCHANGED << ctaskFrame, ctask, active_connections >>

\* the pump returned or the open failed: stats.active_connections.fetch_sub(1)
CTaskEnd(c) ==
    /\ ctask[c] \in {"bridging", "failed"}
    /\ ctask' = [ctask EXCEPT ![c] = "ended"]
    /\ active_connections' = GaugeAfterEnd(active_connections, ctask[c])
    /\ UNCHANGED << ctaskFrame, bytes_sent, bytes_received >>

(***************************************************************************)
(* The whole control loop.  The driver shares (with auto_approve, or with  *)
(* a secrets file), connects and shuts down.                               *)
(***************************************************************************)
LoopCommand ==
    { Cmd("Share", "-", {port}, "none", TRUE) : port \in Ports }
    \cup { Cmd("Share", "-", {port}, "good", FALSE) : port \in Ports }
    \cup { ConnectCmd(l, {port}, {}) : l \in NetPeers, port \in Ports }
    \cup { Cmd("Shutdown", "-", {}, "none", FALSE) }

\* the handlers of the control loop task, all but the stats tick
HandlerStep ==
    \/ HandleCommand
    \/ \E ok, bound \in BOOLEAN : ConnectTurn(ok, bound)
    \/ InboundTunnel
    \/ ApprovalWait
    \/ InboundSecrets
    \/ \E ok \in BOOLEAN : LocalAccept(ok)
    \/ HandleNetworkEvent
    \/ PollOnce
    \/ Cleanup

\* a step of the control loop task
LoopStep == StatsTick \/ HandlerStep

\* a step of a bridging task, on the sharing or on the connecting side
BridgeTaskStep ==
    \/ \E s \in StreamIds : TaskStart(s)
    \/ \E s \in StreamIds, ok \in BOOLEAN : TaskDial(s, ok)
    \/ \E s \in StreamIds, toStream \in BOOLEAN : TaskCopy(s, toStream)
    \/ \E s \in StreamIds : TaskEnd(s)
    \/ \E c \in ConnIds : CTaskStart(c)
    \/ \E c \in ConnIds, ok \in BOOLEAN : CTaskOpen(c, ok)
    \/ \E c \in ConnIds, toStream \in BOOLEAN : CTaskCopy(c, toStream)
    \/ \E c \in ConnIds : CTaskEnd(c)

\* a step of a spawned task
TaskStep ==
    \/ BridgeTaskStep
    \/ \E x \in SecretIds, ok \in BOOLEAN : SecretsTask(x, ok)

\* a step of the environment
EnvStep ==
    \/ \E c \in LoopCommand : DriverSend(c)
    \/ \E p \in NetPeers : StreamArrives(p)
    \/ SecretsArrives
    \/ LocalConnects
    \/ \E e \in LoopSwarmEvents : SwarmProduces(e)

\* commands, substreams, local connections, notable swarm events and timer
\* ticks so far
Inputs == sentCmds + nextStream + nextSecret + nextConn + swarmSeen + ticks

LoopNext ==
    \/ HandlerStep
    \/ TaskStep
    \/ (Inputs < MaxInputs /\ (StatsTick \/ EnvStep))

LoopSpec == Init /\ [][LoopNext]_vars

(***************************************************************************)
(* The traffic counters.  The driver shares with auto_approve and          *)
(* connects, the connect and the bind succeed at once; bridging tasks on   *)
(* both sides copy while the stats timer ticks.                            *)
(***************************************************************************)
StatsCommand ==
    { Cmd("Share", "-", {port}, "none", TRUE) : port \in Ports }
    \cup { ConnectCmd(l, {port}, {}) : l \in NetPeers, port \in Ports }

StatsEnvStep ==
    \/ \E c \in StatsCommand : DriverSend(c)
    \/ \E p \in NetPeers : StreamArrives(p)
    \/ LocalConnects
    \/ SwarmProduces(QuietEvent)

StatsNext ==
    \/ StatsTick
    \/ HandleCommand
    \/ ConnectTurn(TRUE, TRUE)
    \/ InboundTunnel
    \/ \E ok \in BOOLEAN : LocalAccept(ok)
    \/ PollOnce
    \/ BridgeTaskStep
    \/ (Inputs - ticks < MaxInputs /\ StatsEnvStep)

StatsSpec == Init /\ [][StatsNext]_vars

\* the StatsUpdate events emitted so far, by their place in `events`
StatsAt == { i \in 1..Len(events) : events[i].type = "StatsUpdate" }

\* C11: bytes_sent and bytes_received never decrease, and of any two
\* StatsUpdate events the later one reports a bytes_sent and a bytes_received
\* at least as large as the earlier one.
C11_StatsMonotone ==
    /\ [][bytes_sent' >= bytes_sent /\ bytes_received' >= bytes_received]_vars
    /\ [](\A i, j \in StatsAt :
            i < j => /\ events[i].bytes_sent <= events[j].bytes_sent
                     /\ events[i].bytes_received <= events[j].bytes_received)

\* two StatsUpdate events were emitted with a copied chunk between them
C11_Witness ==
    \E i, j \in StatsAt :
        /\ i < j
        /\ events[i].bytes_sent + events[i].bytes_received
             < events[j].bytes_sent + events[j].bytes_received

\* a task between its fetch_add and its fetch_sub
Counted == {"started", "bridging", "failed"}

\* the bridging tasks that run, on the sharing and on the connecting side
RunningTasks ==
    Cardinality({ s \in StreamIds : task[s] \in Counted })
      + Cardinality({ c \in ConnIds : ctask[c] \in Counted })

\* C12: active_connections equals the number of bridging tasks that run: a
\* task increases it by one when it starts and decreases it by one when it
\* ends, after a failure as after a normal return, under any interleaving; so
\* the gauge is never negative and is 0 when no bridging task runs.
C12_GaugeCountsTasks ==
    /\ [](active_connections = RunningTasks /\ active_connections >= 0)
    /\ [][ /\ \A s \in StreamIds :
                /\ (task[s] = "spawned" /\ task'[s] # "spawned") =>
                      active_connections' = active_connections + 1
                /\ (task[s] \in Counted /\ task'[s] = "ended") =>
                      active_connections' = active_connections - 1
           /\ \A c \in ConnIds :
                /\ (ctask[c] = "spawned" /\ ctask'[c] # "spawned") =>
                      active_connections' = active_connections + 1
                /\ (ctask[c] \in Counted /\ ctask'[c] = "ended") =>
                      active_connections' = active_connections - 1 ]_vars

\* one task has failed to dial and has not ended yet while another bridges
C12_Witness ==
    \E s, t \in StreamIds :
        /\ task[s] = "failed"
        /\ task[t] = "bridging"
        /\ active_connections = 2

(***************************************************************************)
(* The commands that can fail.  The driver sends Connect commands, Share   *)
(* commands with a secrets file that does not load, StopSession and        *)
(* Shutdown.                                                               *)
(***************************************************************************)
FailingCommand ==
    ConnectCommand
    \cup { Cmd("Share", "-", {port}, "bad", FALSE) : port \in Ports }
    \cup { Cmd("StopSession", "-", {}, "none", FALSE),
           Cmd("Shutdown", "-", {}, "none", FALSE) }

ConnectNext ==
    \/ \E c \in FailingCommand : DriverSend(c)
    \/ \E e \in LoopSwarmEvents : SwarmProduces(e)
    \/ HandleCommand
    \/ \E ok, bound \in BOOLEAN : ConnectTurn(ok, bound)
    \/ PollOnce
    \/ HandleNetworkEvent
    \/ Cleanup

ConnectSpec == Init /\ [][ConnectNext]_vars

\* the last event emitted
LastEvent == events[Len(events)]

\* the handler of a Connect command ends in this step
ConnectEnds == pc = "connect" /\ pc' = "select"

\* the event that ends a Connect handler whose attempts all failed
GaveUp(e) == e.type = "Error" /\ e.message = "Failed to connect"

\* C13 as stated: a Connect command makes at most 20 connect attempts, and
\* gives up with an Error event when 20 attempts have failed.
C13_AtMostTwentyAttempts ==
    /\ attempts <= 20
    /\ (pc = "select" /\ events # << >> /\ GaveUp(LastEvent)) => attempts = 20

\* C13, amended: a Connect command makes at most 21 connect attempts, the
\* first and max_retries = 20 retries; an attempt that succeeds ends the
\* handler; the handler goes round again only after a failed attempt that
\* was not the 21st, and it gives up, with one Error event, exactly when the
\* 21st attempt has failed.
C13_AtMostTwentyOneAttempts ==
    /\ [](attempts <= max_retries + 1 /\ (pc = "connect" => attempts = retry_count))
    /\ [][ pc = "connect" =>
             /\ attempts' \in {attempts, attempts + 1}
             /\ (pc' = "connect" /\ attempts' # attempts) => attempts' <= max_retries
             /\ events' # events => pc' = "select"
             /\ ConnectEnds =>
                  /\ attempts' = attempts + 1
                  /\ Len(events') = Len(events) + 1
                  /\ GaveUp(events'[Len(events')]) => attempts' = max_retries + 1 ]_vars

\* a Connect command gave up after 21 attempts
C13_Witness ==
    /\ pc = "select"
    /\ attempts = max_retries + 1
    /\ events # << >>
    /\ GaveUp(LastEvent)

\* C14: the handler of a Connect command emits nothing and leaves the
\* connect-state alone until it ends, and it ends in exactly one of two ways:
\* with the connect-state set to the peer of the link, the remote port and a
\* listener on local_port (or, without one, on port) and one
\* TunnelEstablished with that peer and that local port; or with one Error
\* event, no TunnelEstablished and the connect-state as it was.
C14_ConnectOutcome ==
    [][ pc = "connect" =>
          /\ ~ConnectEnds => (events' = events /\ connect_info' = connect_info)
          /\ ConnectEnds =>
               \E c \in connecting :
                 LET local == IF c.local_port = {} THEN c.port ELSE c.local_port
                     e == events'[Len(events')]
                 IN  /\ events' = Append(events, e)
                     /\ \/ /\ e = TunnelEv(c.link, local)
                           /\ connect_info' =
                                {[peer_id |-> c.link, port |-> c.port, local |-> local]}
                        \/ /\ e.type = "Error"
                           /\ connect_info' = connect_info ]_vars

\* a Connect with a local port succeeded, and a later Connect failed to bind
\* and left the connect-state of the first in place
C14_Witness ==
    /\ pc = "select"
    /\ \E ci \in connect_info : ci.local \in {{x} : x \in LocalPorts} /\ ci.port \in {{x} : x \in Ports}
    /\ \E i, j \in 1..Len(events) :
         /\ i < j
         /\ events[i].type = "TunnelEstablished"
         /\ events[i].port \in {{x} : x \in LocalPorts}
         /\ events[j] = ErrorEv("Failed to bind port")

\* the control loop handles a Share command in this step
HandlesShare ==
    /\ pc = "select"
    /\ running
    /\ command_rx # << >>
    /\ Head(command_rx).type = "Share"
    /\ command_rx' = Tail(command_rx)

\* a command fails in this step: a Share whose secrets file does not load, or
\* a Connect handler that emits an Error event
ShareFails == HandlesShare /\ Head(command_rx).secrets_path = "bad"
ConnectFails ==
    /\ pc = "connect"
    /\ events' # events
    /\ events'[Len(events')].type = "Error"

\* C17: the step in which a command fails (a Share whose secrets file does
\* not load, a Connect whose attempts all failed or whose bind failed) emits
\* one Error event, leaves the running flag set and the loop at its select,
\* and keeps the commands sent after it in their order; the command channel
\* only ever loses its head to the loop, and a waiting loop can take it.
C17_FailureKeepsLoop ==
    /\ [][ (ShareFails \/ ConnectFails) =>
             /\ Len(events') = Len(events) + 1
             /\ events'[Len(events')].type = "Error"
             /\ SubSeq(events', 1, Len(events)) = events
             /\ running /\ running'
             /\ pc' = "select"
             /\ command_rx' = IF ShareFails THEN Tail(command_rx) ELSE command_rx ]_vars
    /\ [][ \/ command_rx' = command_rx
           \/ (command_rx # << >> /\ command_rx' = Tail(command_rx))
           \/ (command_rx' # << >> /\ command_rx = SubSeq(command_rx', 1, Len(command_rx') - 1)) ]_vars
    /\ []((pc = "select" /\ running /\ command_rx # << >>) => ENABLED HandleCommand)

\* a Connect gave up, and the Connect sent after it was handled and succeeded
C17_Witness ==
    /\ running
    /\ pc = "select"
    /\ \E i, j \in 1..Len(events) :
         /\ i < j
         /\ GaveUp(events[i])
         /\ events[j].type = "TunnelEstablished"

(***************************************************************************)
(* The share-state.  The driver sends Share commands of every kind while   *)
(* tunnel and secrets substreams arrive.                                   *)
(***************************************************************************)
ShareCommand == { c \in DaemonCommand : c.type = "Share" }

\* the environment of a sharer: Share commands, tunnel and secrets substreams
ShareEnvStep ==
    \/ \E c \in ShareCommand : DriverSend(c)
    \/ \E p \in NetPeers : StreamArrives(p)
    \/ SecretsArrives

ShareNext ==
    \/ (Inputs < MaxInputs /\ ShareEnvStep)
    \/ HandleCommand
    \/ InboundTunnel
    \/ ApprovalWait
    \/ InboundSecrets
    \/ \E x \in SecretIds, ok \in BOOLEAN : SecretsTask(x, ok)
    \/ \E s \in StreamIds : TaskStart(s)
    \/ \E s \in StreamIds, ok \in BOOLEAN : TaskDial(s, ok)
    \/ \E s \in StreamIds : TaskEnd(s)

ShareSpec == Init /\ [][ShareNext]_vars

\* the control loop takes secrets substream x from its queue in this step
SecretTaken(x) == secret[x] = "queued" /\ secret'[x] # "queued"

\* C15: the step that handles a Share command whose secrets_path does not
\* load emits one Error event and leaves the share-state without a vault,
\* whatever was handled before; and a secrets substream taken while the
\* share-state has no vault is dropped, with no task to answer it.
C15_FailedLoadLeavesNoVault ==
    [][ /\ (HandlesShare /\ Head(command_rx).secrets_path = "bad") =>
              /\ events' = Append(events, ErrorEv("Failed to load secrets"))
              /\ ~share_secrets'
        /\ \A x \in SecretIds :
              (SecretTaken(x) /\ ~share_secrets) => secret'[x] = "dropped" ]_vars

\* C16: the step that handles Share{port, secrets_path, auto_approve} sets
\* the share-state to that port and that auto_approve, under which inbound
\* tunnel substreams are then bridged, and leaves it with a vault exactly when
\* the command gave a secrets_path that loaded.
C16_ShareRecordsState ==
    /\ [][ HandlesShare =>
             /\ share_port' = Head(command_rx).port
             /\ auto_approve' = Head(command_rx).auto_approve
             /\ share_secrets' <=> Head(command_rx).secrets_path = "good" ]_vars
    /\ [][ \A s \in StreamIds :
             (Taken(s) /\ share_port # {}) =>
                 /\ taskPort'[s] = share_port
                 /\ auto_approve <=> task'[s] = "spawned" ]_vars

(***************************************************************************)
(* Shutdown.                                                               *)
(***************************************************************************)
\* the control loop handles a Shutdown command in this step
HandlesShutdown ==
    /\ pc = "select"
    /\ running
    /\ command_rx # << >>
    /\ Head(command_rx).type = "Shutdown"
    /\ command_rx' = Tail(command_rx)

ShutdownEvent == Ev("Shutdown", "-")

\* the Shutdown events emitted so far, by their place in `events`
ShutdownAt == { i \in 1..Len(events) : events[i] = ShutdownEvent }

\* a queue keeps its head in this step
KeepsHead(q, r) == Len(r) >= Len(q) /\ SubSeq(r, 1, Len(q)) = q

\* C18: handling a Shutdown command clears the running flag, and from then on
\* the control loop takes no command, no inbound tunnel or secrets substream,
\* no local TCP connection, no network event, no swarm event and no stats
\* tick; its one further step is the cleanup, which emits the Shutdown event,
\* the only one and the last event of the loop.
C18_ShutdownStopsLoop ==
    /\ [][ HandlesShutdown => ~running' ]_vars
    /\ [][ ~running =>
             /\ ~running'
             /\ KeepsHead(command_rx, command_rx')
             /\ KeepsHead(incoming_streams, incoming_streams')
             /\ KeepsHead(incoming_secrets, incoming_secrets')
             /\ KeepsHead(network_rx, network_rx')
             /\ accepted' = accepted
             /\ ticks' = ticks
             /\ swarm_event # {} => swarm_event' = swarm_event
             /\ pc' \in {pc, "done"}
             /\ IF pc = "select"
                  THEN events' \in {events, Append(events, ShutdownEvent)}
                  ELSE events' = events ]_vars
    /\ [](~running => pc \in {"select", "done"})
    /\ [](pc = "done" <=> ShutdownAt # {})
    /\ [](pc = "done" => (~running /\ ShutdownAt = {Len(events)}))

\* the loop has shut down with a command, a tunnel substream and a network
\* event still waiting
C18_Witness ==
    /\ pc = "done"
    /\ LastEvent = ShutdownEvent
    /\ \/ command_rx # << >> /\ incoming_streams # << >>
       \/ command_rx # << >> /\ network_rx # << >>
       \/ accepted < nextConn

(***************************************************************************)
(* Progress of the control loop task.  A handler that awaits something     *)
(* only the environment can bring leaves the loop task without a step of   *)
(* its own.                                                                *)
(***************************************************************************)
\* a Shutdown command is waiting in the command channel
ShutdownQueued ==
    \E i \in 1..Len(command_rx) : command_rx[i].type = "Shutdown"

\* C19: a Shutdown command accepted while the daemon runs is handled whatever
\* the loop is doing: while it waits in the command channel the control loop
\* task always has a step of its own to take towards it, also with an
\* approval pending, within a Connect retry, or with bridging tasks running.
C19_ShutdownEventuallyHandled ==
    (running /\ ShutdownQueued) => ENABLED LoopStep

\* C20: no handler holds the control loop for an unbounded time: once the
\* loop has picked a source and its handler runs, the loop task can always
\* take the handler's next step by itself, without a further event of the
\* transport or of any other part of the environment.
C20_HandlerReturns ==
    pc \in {"await", "connect"} => ENABLED HandlerStep

(***************************************************************************)
(* Inbound secrets substreams.                                             *)
(***************************************************************************)
\* the answering task of secrets substream x takes a step
SecretsStep(x) == secret[x] \in SecretsRunning /\ secret'[x] # secret[x]

\* the answering task of x ended without a response on the substream
SecretsUnanswered(x) == secret[x] \in {"dropped", "failed", "cut"}

\* the control loop's own state is the same after this step
LoopUntouched ==
    /\ pc' = pc
    /\ running' = running
    /\ events' = events
    /\ command_rx' = command_rx
    /\ incoming_streams' = incoming_streams
    /\ incoming_secrets' = incoming_secrets
    /\ share_port' = share_port
    /\ share_secrets' = share_secrets
    /\ auto_approve' = auto_approve

\* C22: a secrets substream gets an answering task only while the share-state
\* has a vault, and without one it is dropped with no event; the task writes
\* the response only after it has read the request and encrypted the vault;
\* a task that fails at any of the three calls ends with no response
\* written; and no step of the task emits a daemon event or changes the
\* control loop, which goes on taking commands.
C22_SecretsAnsweredOnlyWithVault ==
    /\ [](\A x \in SecretIds :
             secret[x] \in SecretsRunning \cup {"answered", "failed", "cut"}
                 => share_secrets)
    /\ [][ \A x \in SecretIds :
              /\ (SecretTaken(x) /\ ~share_secrets) =>
                     /\ secret'[x] = "dropped"
                     /\ events' = events
                     /\ pc' = pc
              /\ SecretsStep(x) =>
                     /\ LoopUntouched
                     /\ secret'[x] = "answered" => secret[x] = "prefix"
                     /\ secret'[x] = "prefix" => secret[x] = "encrypted"
                     /\ secret'[x] = "encrypted" => secret[x] = "received"
                     /\ secret'[x] \in SecretsRunning \cup {"answered", "failed", "cut"}
              /\ SecretsUnanswered(x) => secret'[x] = secret[x] ]_vars
    /\ []((pc = "select" /\ running /\ command_rx # << >>) => ENABLED HandleCommand)

\* a task read the request and encrypted the vault, the write of the
\* response failed, no Error event was emitted, and the loop is at its select
C22_Witness ==
    /\ \E x \in SecretIds : secret[x] = "cut"
    /\ share_secrets
    /\ pc = "select"
    /\ running
    /\ \A i \in 1..Len(events) : events[i].type # "Error"

(***************************************************************************)
(* Bridging tasks that fail.                                               *)
(***************************************************************************)
\* the share-side task of s, or the connect-side task of c, is the only
\* task whose state changes in this step
OnlyTask(s) == (\A t \in StreamIds \ {s} : task'[t] = task[t]) /\ ctask' = ctask
OnlyCTask(c) == (\A d \in ConnIds \ {c} : ctask'[d] = ctask[d]) /\ task' = task

\* C23: a bridging task whose dial of the local port (sharer) or whose open of
\* the tunnel substream (connector) fails ends and nothing else does: the
\* failing step and the task's last step change no other task and nothing
\* of the control loop, the last step takes the task's count off
\* active_connections, and the control loop goes on taking commands.
C23_BridgingFailureIsolated ==
    /\ [][ \A s \in StreamIds :
              /\ (task[s] # "failed" /\ task'[s] = "failed") =>
                     /\ task[s] = "started"
                     /\ OnlyTask(s)
                     /\ LoopUntouched
                     /\ active_connections' = active_connections
              /\ (task[s] = "failed" /\ task'[s] # "failed") =>
                     /\ task'[s] = "ended"
                     /\ OnlyTask(s)
                     /\ LoopUntouched
                     /\ active_connections' = active_connections - 1 ]_vars
    /\ [][ \A c \in ConnIds :
              /\ (ctask[c] # "failed" /\ ctask'[c] = "failed") =>
                     /\ ctask[c] = "started"
                     /\ OnlyCTask(c)
                     /\ LoopUntouched
                     /\ active_connections' = active_connections
              /\ (ctask[c] = "failed" /\ ctask'[c] # "failed") =>
                     /\ ctask'[c] = "ended"
                     /\ OnlyCTask(c)
                     /\ LoopUntouched
                     /\ active_connections' = active_connections - 1 ]_vars
    /\ [](\A s \in StreamIds : task[s] = "bridging" => ENABLED TaskEnd(s))
    /\ []((pc = "select" /\ running /\ command_rx # << >>) => ENABLED HandleCommand)

\* one share-side task failed at its dial while another one bridges and the
\* control loop is at its select
C23_Witness ==
    /\ pc = "select"
    /\ running
    /\ \E s, t \in StreamIds : task[s] = "failed" /\ task[t] = "bridging"

(***************************************************************************)
(* The peer table and the lifecycle events.  The swarm reports listen      *)
(* addresses, connections that open and close (a peer can have more than   *)
(* one), Identify and DCUtR results; the control loop polls the swarm and  *)
(* hands the network events on.                                            *)
(***************************************************************************)
PeerNext ==
    \/ \E e \in SwarmEvents : SwarmProducesUpTo(e, MaxNet)
    \/ PollOnce
    \/ HandleNetworkEvent

PeerSpec == Init /\ [][PeerNext]_vars

\* C28: once every reported swarm event is handled, the peer table holds a
\* record of a peer exactly when the swarm has at least one connection to
\* that peer.
C28_RecordIffConnected ==
    swarm_event = {} =>
        \A p \in NetPeers : (p \in DOMAIN peers) <=> (established[p] > 0)

\* the control loop takes a network event from the channel in this step
HandlesNetworkEvent ==
    network_rx # << >> /\ network_rx' = Tail(network_rx)

\* C29: the step that takes a lifecycle event from the network channel
\* emits the daemon event of the same kind and peer, right after the events
\* emitted before it: every surfaced event once, in the order of the channel.
C29_EveryEventTranslated ==
    [][ HandlesNetworkEvent => events' = Append(events, Head(network_rx)) ]_vars

(***************************************************************************)
(* The swarm poll under command load.  The driver keeps the command        *)
(* channel filled, so that the command arm is ready at every turn of the   *)
(* loop.  The select starts at a random arm each time, so an arm that is   *)
(* ready again and again is taken in the end: strong fairness of the poll  *)
(* arm.  The handlers of these commands, of the stats tick and of a        *)
(* network event return without waiting.                                   *)
(***************************************************************************)
PollCommand ==
    { Cmd("StopSession", "-", {}, "none", FALSE) }
    \cup { Cmd("Share", "-", {port}, "none", FALSE) : port \in Ports }

\* the driver under load: it sends whenever the channel has room; these
\* commands are not counted in sentCmds
DriverFloods(c) ==
    /\ running
    /\ Len(command_rx) < MaxCmds
    /\ command_rx' = Append(command_rx, c)
    /\ UNCHANGED << running, share_port, auto_approve, share_secrets,
                    pending_approvals, chan, incoming_streams, pc, waiting, events,
                    task, taskPort, bytes_sent, bytes_received, active_connections,
                    streamPeer, nextStream, sentCmds, outcomes, approveInTime,
                    denyInTime >>
    /\ UNCHANGED << loopVars, bridgeVars, pureVars >>

PollNext ==
    \/ \E c \in PollCommand : DriverFloods(c)
    \/ \E e \in LoopSwarmEvents : SwarmProduces(e)
    \/ StatsTick
    \/ HandleCommand
    \/ HandleNetworkEvent
    \/ PollOnce

PollFairness == SF_vars(PollOnce)

PollSpec == Init /\ [][PollNext]_vars /\ PollFairness

\* C21: the poll_once arm is not starved by commands: a swarm event that is
\* ready is always handled by poll_once in the end, also when the command
\* channel holds a command at every turn of the control loop.
C21_PollNotStarved ==
    (swarm_event # {}) ~> (swarm_event = {})

\* poll_once has handled a swarm event while a command was ready, and the
\* channel is full again
C21_Witness ==
    /\ polled
    /\ Len(command_rx) = MaxCmds
    /\ swarm_event = {}
    /\ network_rx # << >>

(***************************************************************************)
(* The pure functions of wh-core: the framing of the secrets protocol, the *)
(* encryption of a vault for a peer, and rift links.  One call is          *)
(* evaluated per run: `call` holds the function and its arguments, `ret`   *)
(* what it returned.  Results are records: Ok(v), or Err(e, m) for the     *)
(* error variant e with message m, or Panic.                               *)
(***************************************************************************)
Ok(v) == [tag |-> "Ok", value |-> v]
Err(e, m) == [tag |-> "Err", error |-> e, message |-> m]
Panic == [tag |-> "Panic"]

\* the rest of the model stands still while a pure function is evaluated
pureFrame == << call, file, loaded, evch, proxy, daemonVars, loopVars, bridgeVars >>

(***************************************************************************)
(* receive_secrets.  A u32 is kept as the pair of its high and low 16 bits *)
(* (TLC's integers have 31 bits).  The reader holds the bytes of the       *)
(* length prefix that arrive before the substream ends, and then either    *)
(* all the bytes the prefix declares ("full") or fewer ("short").          *)
(***************************************************************************)
\* `10 * 1024 * 1024`
MaxMessageSize == 10485760

U32(n) == << n \div 65536, n % 65536 >>

\* u32::from_be_bytes
FromBeBytes(b) == << b[1] * 256 + b[2], b[3] * 256 + b[4] >>

\* `>` on u32
Gt(x, y) == x[1] > y[1] \/ (x[1] = y[1] /\ x[2] > y[2])

\* faulty variant: a frame of exactly the limit is rejected too
TooLargeInclusive(len) == ~Gt(U32(MaxMessageSize), len)

\* `if len > 10 * 1024 * 1024`
TooLarge(len) == Gt(len, U32(MaxMessageSize))

\* what receive_secrets returns and whether it read any byte of the payload
Received(r, touched) == [result |-> r, payload_read |-> touched]

ReceiveSecrets(reader) ==
    IF Len(reader.prefix) < 4
      THEN Received(Err("StreamError", "Failed to read length"), FALSE)
      ELSE LET len == FromBeBytes(reader.prefix) IN
           CASE TooLarge(len) ->
                  Received(Err("StreamError", "Message too large"), FALSE)
             [] ~TooLarge(len) /\ reader.body = "short" ->
                  Received(Err("StreamError", "Failed to read data"), TRUE)
             [] OTHER ->
                  Received(IF reader.valid
                             THEN Ok("request")
                             ELSE Err("Serialization", "Failed to deserialize"),
                           len # << 0, 0 >>)

\* the bytes of the length prefixes tried: around the limit 0x00A00000, and
\* the ends of the range
PrefixBytes == << {0, 1, 255}, {0, 159, 160, 161, 255}, {0, 1, 255}, {0, 1, 255} >>

Prefixes ==
    { << a, b, c, d >> : a \in PrefixBytes[1], b \in PrefixBytes[2],
                         c \in PrefixBytes[3], d \in PrefixBytes[4] }
    \cup { << >>, << 0 >>, << 0, 160 >>, << 0, 160, 0 >> }

Readers ==
    { [prefix |-> pre, body |-> b, valid |-> v] :
          pre \in Prefixes, b \in {"full", "short"}, v \in BOOLEAN }

ReceiveCalls == { [fn |-> "receive_secrets", reader |-> r] : r \in Readers }

ReceiveSecretsCall ==
    /\ call.fn = "receive_secrets"
    /\ ret = NoRet
    /\ ret' = ReceiveSecrets(call.reader)
    /\ UNCHANGED pureFrame

(***************************************************************************)
(* crypto.rs and the vault's encrypt_for_peer / decrypt_from_peer.  The    *)
(* primitives are ideal: an X25519 secret is a name, its public key is the *)
(* 32 bytes that stand for that name, the shared secret of a secret and a  *)
(* public key is the pair of the two names, and an AES-GCM ciphertext      *)
(* opens only under the key and nonce it was sealed with.  The ephemeral   *)
(* secret and the nonce, random in the code, are arguments here.           *)
(***************************************************************************)
\* `pub const NONCE_SIZE: usize = 12`
NONCE_SIZE == 12
\* `pub const PUBLIC_KEY_SIZE: usize = 32`
PUBLIC_KEY_SIZE == 32

\* the static secrets of the peers' keypairs, the sharer's, and the
\* ephemeral secrets and nonces the random generator can give
Recipients == {"a", "b"}
Sharer == "s"
EphemeralSecrets == {"e1", "e2"}
Nonces == {"n1"}

\* a byte string of length n; with the right length it is the public key
\* of secret k, or the nonce k
Bytes(n, k) == [len |-> n, of |-> k]

\* KeyPair::public_key_bytes, EphemeralKeyExchange::public_key_bytes
PublicKeyBytes(k) == Bytes(PUBLIC_KEY_SIZE, k)

\* KeyPair::diffie_hellman, EphemeralKeyExchange::complete
DiffieHellman(sk, peer_public) == {sk, peer_public.of}

\* SecretsCipher::encrypt with the nonce it drew
Seal(shared_secret, nonce, plaintext) ==
    [key |-> shared_secret, nonce |-> nonce, text |-> plaintext]

\* faulty variant: the ciphertext opens under any key
DecryptUnauthenticated(shared_secret, ciphertext, nonce) == Ok(ciphertext.text)

\* SecretsCipher::decrypt
Decrypt(shared_secret, ciphertext, nonce) ==
    IF ciphertext.key = shared_secret /\ ciphertext.nonce = nonce
      THEN Ok(ciphertext.text)
      ELSE Err("DecryptionFailed", "aead::Error")

\* encrypt_for_recipient: (ephemeral_public, ciphertext, nonce)
EncryptForRecipient(recipient_public_key, plaintext, eph, nonce) ==
    << PublicKeyBytes(eph),
       Seal(DiffieHellman(eph, recipient_public_key), nonce, plaintext),
       nonce >>

\* faulty variant: the shared secret is derived from the keypair's own
\* public key
DecryptFromSenderOwnKey(our_keypair, sender_ephemeral_public, ciphertext, nonce) ==
    Decrypt(DiffieHellman(our_keypair, PublicKeyBytes(our_keypair)), ciphertext, nonce)

\* decrypt_from_sender
DecryptFromSender(our_keypair, sender_ephemeral_public, ciphertext, nonce) ==
    Decrypt(DiffieHellman(our_keypair, sender_ephemeral_public), ciphertext, nonce)

\* the vaults tried: every map from some of the names to the values
EnvKeys == {"A", "B"}
EnvValues == {"x", "y"}
Vaults == UNION { [ks -> EnvValues] : ks \in SUBSET EnvKeys }

\* the orders in which a HashMap can give its entries
Orders == { << "A", "B" >>, << "B", "A" >> }

\* serde_json::to_vec(&self.secrets): the entries as a JSON object, in the
\* order the map gives them
ToJson(secrets, order) ==
    LET Has(k) == k \in DOMAIN secrets
        ks == SelectSeq(order, Has)
    IN  [i \in 1..Len(ks) |-> << ks[i], secrets[ks[i]] >>]

\* serde_json::from_slice: the map of a JSON object
FromJson(doc) ==
    LET ks == { doc[i][1] : i \in 1..Len(doc) }
        Last(k) == CHOOSE i \in 1..Len(doc) :
                       /\ doc[i][1] = k
                       /\ \A j \in (i + 1)..Len(doc) : doc[j][1] # k
    IN  [k \in ks |-> doc[Last(k)][2]]

\* what a vault function returns and how many operations of the
\* primitives (key agreement, cipher) it made
Done(r, ops) == [result |-> r, ops |-> ops]

\* faulty variant: the length of the public key is not looked at
KeyLengthUnchecked(key) == TRUE

\* `peer_public_key.len() != 32`, negated
KeyLengthOk(key) == key.len = 32

\* faulty variant: the length of the nonce is not looked at
NonceLengthUnchecked(nonce) == TRUE

\* `response.nonce.len() != NONCE_SIZE`, negated
NonceLengthOk(nonce) == nonce.len = NONCE_SIZE

\* copy_from_slice into an array of n bytes panics on another length
CopyPanics(n, src) == src.len # n

\* EnvVault::encrypt_for_peer
EncryptForPeer(secrets, peer_public_key, eph, nonce, order) ==
    CASE ~KeyLengthOk(peer_public_key) ->
           Done(Err("InvalidPublicKey", "Public key must be 32 bytes"), 0)
      [] KeyLengthOk(peer_public_key) /\ CopyPanics(32, peer_public_key) ->
           Done(Panic, 0)
      [] OTHER ->
           LET sealed == EncryptForRecipient(peer_public_key, ToJson(secrets, order),
                                             eph, nonce)
           IN  Done(Ok([ephemeral_public_key |-> sealed[1],
                        encrypted_data |-> sealed[2],
                        nonce |-> Bytes(NONCE_SIZE, sealed[3]),
                        sender_public_key |-> PublicKeyBytes(Sharer)]), 2)

\* EnvVault::decrypt_from_peer
DecryptFromPeer(our_keypair, response) ==
    CASE ~KeyLengthOk(response.ephemeral_public_key) ->
           Done(Err("InvalidPublicKey", "Ephemeral public key must be 32 bytes"), 0)
      [] KeyLengthOk(response.ephemeral_public_key)
           /\ ~NonceLengthOk(response.nonce) ->
           Done(Err("DecryptionFailed", "Invalid nonce size"), 0)
      [] KeyLengthOk(response.ephemeral_public_key)
           /\ NonceLengthOk(response.nonce)
           /\ (CopyPanics(32, response.ephemeral_public_key)
                 \/ CopyPanics(NONCE_SIZE, response.nonce)) ->
           Done(Panic, 0)
      [] OTHER ->
           LET plaintext == DecryptFromSender(our_keypair,
                                              response.ephemeral_public_key,
                                              response.encrypted_data,
                                              response.nonce.of)
           IN  IF plaintext.tag = "Ok"
                 THEN Done(Ok(FromJson(plaintext.value)), 2)
                 ELSE Done(plaintext, 2)

\* the lengths tried for a public key and for a nonce
KeyLengths == {0, 31, 32, 33}
NonceLengths == {0, 11, 12, 13}

\* the plaintexts tried at the level of crypto.rs
Plaintexts == { << >>, << 1 >>, << 1, 2 >> }

EncryptCalls ==
    { [fn |-> "encrypt_for_peer", secrets |-> m, public_key |-> Bytes(n, r),
       eph |-> e, nonce |-> x, order |-> o] :
          m \in Vaults, n \in KeyLengths, r \in Recipients, e \in EphemeralSecrets,
          x \in Nonces, o \in Orders }

\* a response made by encrypt_for_peer for `requester`, the lengths of its
\* ephemeral key and nonce set to eklen and nlen, given to `holder`
DecryptCalls ==
    { [fn |-> "decrypt_from_peer", secrets |-> m, requester |-> r, holder |-> d,
       eph |-> e, nonce |-> x, order |-> o, eklen |-> kl, nlen |-> nl] :
          m \in Vaults, r \in Recipients, d \in Recipients, e \in EphemeralSecrets,
          x \in Nonces, o \in Orders, kl \in KeyLengths \ {0}, nl \in NonceLengths \ {0} }

\* a ciphertext made by encrypt_for_recipient for `recipient`, given to `holder`
SenderCalls ==
    { [fn |-> "decrypt_from_sender", plaintext |-> t, recipient |-> r, holder |-> d,
       eph |-> e, nonce |-> x] :
          t \in Plaintexts, r \in Recipients, d \in Recipients,
          e \in EphemeralSecrets, x \in Nonces }

ResponseOf(c) ==
    LET made == EncryptForPeer(c.secrets, PublicKeyBytes(c.requester), c.eph,
                               c.nonce, c.order).result.value
    IN  [made EXCEPT !.ephemeral_public_key.len = c.eklen, !.nonce.len = c.nlen]

EncryptForPeerCall ==
    /\ call.fn = "encrypt_for_peer"
    /\ ret = NoRet
    /\ ret' = EncryptForPeer(call.secrets, call.public_key, call.eph, call.nonce,
                             call.order)
    /\ UNCHANGED pureFrame

DecryptFromPeerCall ==
    /\ call.fn = "decrypt_from_peer"
    /\ ret = NoRet
    /\ ret' = DecryptFromPeer(call.holder, ResponseOf(call))
    /\ UNCHANGED pureFrame

DecryptFromSenderCall ==
    /\ call.fn = "decrypt_from_sender"
    /\ ret = NoRet
    /\ LET sealed == EncryptForRecipient(PublicKeyBytes(call.recipient),
                                         call.plaintext, call.eph, call.nonce)
       IN  ret' = Done(DecryptFromSender(call.holder, sealed[1], sealed[2], sealed[3]), 2)
    /\ UNCHANGED pureFrame

(***************************************************************************)
(* Rift links.  A string is the sequence of its characters.  A Peer ID is  *)
(* a sequence of digits; its text form writes each digit with the          *)
(* character of that rank in the alphabet, and reading a text back fails   *)
(* on a character outside the alphabet and on a digit sequence that is no  *)
(* Peer ID.                                                                *)
(***************************************************************************)
\* "rift://"
Scheme == << "r", "i", "f", "t", ":", "/", "/" >>

\* the alphabet of the text form of a Peer ID (base58 has no "0")
IdChars == << "1", "2", "3" >>

\* the Peer IDs: digit sequences of the one valid length
IdLen == 2
PeerIds == [1..IdLen -> 1..Len(IdChars)]

\* PeerId's Display
PeerIdToString(id) == [i \in 1..Len(id) |-> IdChars[id[i]]]

\* PeerId's FromStr
ParsePeerId(str) ==
    IF /\ Len(str) = IdLen
       /\ \A i \in 1..Len(str) : \E n \in 1..Len(IdChars) : IdChars[n] = str[i]
      THEN Ok([i \in 1..Len(str) |-> CHOOSE n \in 1..Len(IdChars) : IdChars[n] = str[i]])
      ELSE Err("InvalidPeerId", "Invalid peer ID")

\* faulty variant: as many characters as the prefix has are cut off,
\* whatever they are
StripPrefixUnchecked(str, prefix) ==
    IF Len(str) >= Len(prefix)
      THEN { SubSeq(str, Len(prefix) + 1, Len(str)) }
      ELSE {}

\* str::strip_prefix: {} for None, {rest} for Some(rest)
StripPrefix(str, prefix) ==
    IF Len(str) >= Len(prefix) /\ SubSeq(str, 1, Len(prefix)) = prefix
      THEN { SubSeq(str, Len(prefix) + 1, Len(str)) }
      ELSE {}

\* PeerIdentity::to_rift_link
ToRiftLink(peer_id) == Scheme \o PeerIdToString(peer_id)

\* PeerIdentity::parse_rift_link
ParseRiftLink(link) ==
    LET rest == StripPrefix(link, Scheme) IN
    IF rest = {}
      THEN Err("InvalidPeerId", "Link must start with rift://")
      ELSE ParsePeerId(CHOOSE r \in rest : TRUE)

\* the links tried: the scheme, or something close to it, or nothing,
\* followed by up to MaxIdChars characters
MaxIdChars == 3
LinkHeads ==
    { Scheme, << >>, SubSeq(Scheme, 1, 6), SubSeq(Scheme, 2, 7),
      << "R" >> \o SubSeq(Scheme, 2, 7), << "/" >> \o Scheme }
LinkTails == SeqsUpTo({"1", "2", "3", "0"}, MaxIdChars)
LinkCalls ==
    { [fn |-> "parse_rift_link", link |-> h \o t] : h \in LinkHeads, t \in LinkTails }

ParseRiftLinkCall ==
    /\ call.fn = "parse_rift_link"
    /\ ret = NoRet
    /\ ret' = ParseRiftLink(call.link)
    /\ UNCHANGED pureFrame

(***************************************************************************)
(* One call of a pure function on arguments drawn from the sets above.     *)
(***************************************************************************)
Calls == ReceiveCalls \cup EncryptCalls \cup DecryptCalls \cup SenderCalls \cup LinkCalls

PureInit ==
    /\ DaemonInit
    /\ BridgeIdle
    /\ call \in Calls
    /\ ret = NoRet
    /\ file = Absent
    /\ loaded = << >>
    /\ evch = NoChannels
    /\ proxy = NoProxy

PureNext ==
    \/ ReceiveSecretsCall
    \/ EncryptForPeerCall
    \/ DecryptFromPeerCall
    \/ DecryptFromSenderCall
    \/ ParseRiftLinkCall

PureSpec == PureInit /\ [][PureNext]_vars

\* the call has returned
Returned(fn) == call.fn = fn /\ ret # NoRet

\* the bytes of the largest length a frame may declare, 10 MiB = 0x00A00000
LimitBytes == << 0, 160, 0, 0 >>

\* the length prefix pre declares more than the limit
DeclaresOverLimit(pre) ==
    \E i \in 1..4 :
        /\ pre[i] > LimitBytes[i]
        /\ \A j \in 1..(i - 1) : pre[j] = LimitBytes[j]

\* C24: receive_secrets rejects a frame whose 4-byte big-endian length prefix
\* declares more than 10 MiB with StreamError("Message too large") and has
\* then read no byte of the payload; a frame that declares 10 MiB or less is
\* never rejected with that error.
C24_FrameSizeLimit ==
    (Returned("receive_secrets") /\ Len(call.reader.prefix) = 4) =>
        IF DeclaresOverLimit(call.reader.prefix)
          THEN ret = Received(Err("StreamError", "Message too large"), FALSE)
          ELSE ret.result # Err("StreamError", "Message too large")

\* a frame that declares one byte more than 10 MiB was rejected, and one that
\* declares 10 MiB is the call of another run
C24_Witness ==
    /\ Returned("receive_secrets")
    /\ call.reader.prefix = << 0, 160, 0, 1 >>
    /\ call.reader.body = "full"
    /\ ret = Received(Err("StreamError", "Message too large"), FALSE)

\* the lengths of the response are the ones encrypt_for_peer gave it
LengthsKept(c) == c.eklen = PUBLIC_KEY_SIZE /\ c.nlen = NONCE_SIZE

\* C25: what encrypt_for_recipient made for a recipient's public key,
\* decrypt_from_sender with that recipient's keypair turns back into the
\* plaintext; and the response encrypt_for_peer made for the requested public
\* key, decrypt_from_peer by the holder of that key turns back into the
\* sharer's map of names and values, whatever the map, the empty one too.
C25_CryptoRoundTrip ==
    /\ (Returned("decrypt_from_sender") /\ call.holder = call.recipient) =>
           ret.result = Ok(call.plaintext)
    /\ (Returned("decrypt_from_peer") /\ call.holder = call.requester
           /\ LengthsKept(call)) =>
           ret.result = Ok(call.secrets)

\* the requester got the sharer's two secrets back
C25_Witness ==
    /\ Returned("decrypt_from_peer")
    /\ call.holder = call.requester
    /\ DOMAIN call.secrets = EnvKeys
    /\ ret.result = Ok(call.secrets)

\* C26: a ciphertext or a response made for the public key of one keypair,
\* given to another keypair, fails to decrypt with DecryptionFailed and the
\* result holds no plaintext; a result with a plaintext is only ever given to
\* the keypair whose public key the response was made for.
C26_WrongRecipientFails ==
    /\ (Returned("decrypt_from_sender") /\ call.holder # call.recipient) =>
           ret.result = Err("DecryptionFailed", "aead::Error")
    /\ (Returned("decrypt_from_peer") /\ call.holder # call.requester
           /\ LengthsKept(call)) =>
           ret.result = Err("DecryptionFailed", "aead::Error")
    /\ (Returned("decrypt_from_peer") /\ ret.result.tag = "Ok") =>
           call.holder = call.requester

\* the other keypair was given a response with two secrets and got an error
C26_Witness ==
    /\ Returned("decrypt_from_peer")
    /\ call.holder # call.requester
    /\ LengthsKept(call)
    /\ DOMAIN call.secrets = EnvKeys
    /\ ret.result.tag = "Err"

\* C27: encrypt_for_peer returns InvalidPublicKey for a public key that is
\* not 32 bytes long, decrypt_from_peer returns an error for an ephemeral
\* public key that is not 32 bytes long and for a nonce that is not 12 bytes
\* long, in each case before any operation of the primitives; neither
\* function panics on any length.
C27_LengthsValidated ==
    /\ (Returned("encrypt_for_peer") /\ call.public_key.len # 32) =>
           ret = Done(Err("InvalidPublicKey", "Public key must be 32 bytes"), 0)
    /\ (Returned("decrypt_from_peer") /\ (call.eklen # 32 \/ call.nlen # 12)) =>
           ret.result.tag = "Err" /\ ret.ops = 0
    /\ (Returned("encrypt_for_peer") \/ Returned("decrypt_from_peer")) =>
           ret.result.tag # "Panic"

\* a response with a 32-byte ephemeral key and a 13-byte nonce was refused
C27_Witness ==
    /\ Returned("decrypt_from_peer")
    /\ call.eklen = 32
    /\ call.nlen = 13
    /\ ret = Done(Err("DecryptionFailed", "Invalid nonce size"), 0)

\* the link does not begin with the scheme
LacksScheme(link) ==
    ~(Len(link) >= Len(Scheme) /\ \A i \in 1..Len(Scheme) : link[i] = Scheme[i])

\* the text forms of the Peer IDs
PeerIdStrings == { PeerIdToString(id) : id \in PeerIds }

\* what follows the scheme is not the text form of a Peer ID
RemainderInvalid(link) ==
    /\ ~LacksScheme(link)
    /\ SubSeq(link, Len(Scheme) + 1, Len(link)) \notin PeerIdStrings

\* C30: parse_rift_link gives back the Peer ID of every link to_rift_link
\* made, and fails with InvalidPeerId on every string that does not begin
\* with the scheme or whose remainder is not the text form of a Peer ID.
C30_LinkRoundTrip ==
    Returned("parse_rift_link") =>
        /\ \A id \in PeerIds : call.link = ToRiftLink(id) => ret = Ok(id)
        /\ (LacksScheme(call.link) \/ RemainderInvalid(call.link)) =>
               (ret.tag = "Err" /\ ret.error = "InvalidPeerId")

\* the link of a Peer ID was parsed back to it
C30_Witness ==
    /\ Returned("parse_rift_link")
    /\ ret.tag = "Ok"
    /\ call.link = ToRiftLink(ret.value)

(***************************************************************************)
(* The identity file (wh-core, network/identity.rs).  A keypair is named   *)
(* by a number; its peer id is derived from its public key alone.  The     *)
(* file holds the protobuf encoding of the keypair, a sequence of the key  *)
(* type and the key, or any other bytes someone has put at the path.       *)
(***************************************************************************)
Keypairs == 1..MaxKeys

\* `PeerId::from(keypair.public())`
PeerIdOf(k) == << "peer", k >>
Identity(k) == [keypair |-> k, peer_id |-> PeerIdOf(k)]

\* `keypair.to_protobuf_encoding()`; encoding an Ed25519 keypair does not fail
ToProtobufEncoding(k) == << "Ed25519", k >>

\* `Keypair::from_protobuf_encoding(&bytes)`
FromProtobufEncoding(bytes) ==
    IF Len(bytes) = 2 /\ bytes[1] = "Ed25519" /\ bytes[2] \in Keypairs
    THEN Ok(bytes[2])
    ELSE Err("DecodingError", "-")

\* what can lie at the path before the first call: nothing, a keypair file,
\* an empty file, a truncated file, a file of another key type
File(bytes) == [exists |-> TRUE, bytes |-> bytes]
Files ==
    {Absent} \cup
    {File(b) : b \in {<< >>, << "Ed25519" >>, << "Rsa", 1 >>} \cup
                     {ToProtobufEncoding(k) : k \in Keypairs}}

\* the outcomes of the file system calls of one load_or_generate: all succeed, or
\* the named one fails with an I/O error
IoOutcomes == {"ok", "read", "create_dir_all", "write", "set_permissions"}

\* `PeerIdentity::load(path)`: the result; the file is only read
Load(f, io) ==
    IF io = "read" THEN Err("Io", "-")
    ELSE LET decoded == FromProtobufEncoding(f.bytes)
         IN IF decoded.tag = "Ok" THEN Ok(Identity(decoded.value))
            ELSE Err("ConfigError", "Invalid keypair file")

\* `identity.save(path)`: the result and the file afterwards.  A write that
\* fails has created the file and may have written nothing to it.
Save(k, f, io) ==
    CASE io = "create_dir_all"  -> [result |-> Err("Io", "-"), file |-> f]
      [] io = "write"           -> [result |-> Err("Io", "-"), file |-> File(<< >>)]
      [] io = "set_permissions" -> [result |-> Err("Io", "-"), file |-> File(ToProtobufEncoding(k))]
      [] OTHER                  -> [result |-> Ok("-"), file |-> File(ToProtobufEncoding(k))]

\* faulty variant: the file is never seen, every call generates
ExistsNever(f) == FALSE

\* `path.exists()`
Exists(f) == f.exists

\* `PeerIdentity::load_or_generate(path)` with the keypair k that generate()
\* would draw: the result and the file afterwards
LoadOrGenerate(f, k, io) ==
    IF Exists(f)
    THEN [result |-> Load(f, io), file |-> f]
    ELSE LET saved == Save(k, f, io)
         IN [result |-> IF saved.result.tag = "Ok" THEN Ok(Identity(k)) ELSE saved.result,
             file |-> saved.file]

identityFrame == << call, ret, evch, proxy, daemonVars, loopVars, bridgeVars >>

LoadOrGenerateCall(k, io) ==
    /\ Len(loaded) < MaxLoads
    /\ LET r == LoadOrGenerate(file, k, io)
       IN /\ loaded' = Append(loaded, [result |-> r.result, found |-> Exists(file)])
          /\ file' = r.file
    /\ UNCHANGED identityFrame

IdentityInit ==
    /\ DaemonInit
    /\ BridgeIdle
    /\ call = NoCall
    /\ ret = NoRet
    /\ file \in Files
    /\ loaded = << >>
    /\ evch = NoChannels
    /\ proxy = NoProxy

IdentityNext == \E k \in Keypairs, io \in IoOutcomes : LoadOrGenerateCall(k, io)

IdentitySpec == IdentityInit /\ [][IdentityNext]_vars

\* a call of load_or_generate returns in this step
LoadReturns == loaded' # loaded
Undecodable(f) == f.exists /\ FromProtobufEncoding(f.bytes).tag = "Err"

\* C31: a call on a path with no file either returns a generated identity
\* whose encoding is then the file, or fails with an I/O error; after a call
\* has returned an identity every later call returns an identity with the
\* same peer id unless reading the file fails; a call on a file that does
\* not decode fails with ConfigError, or with an I/O error when the file
\* cannot be read, and leaves the file as it is.
C31_IdentityStable ==
    /\ [][ (LoadReturns /\ file = Absent) =>
            LET r == loaded'[Len(loaded')].result
            IN \/ /\ r.tag = "Ok"
                  /\ file' = File(ToProtobufEncoding(r.value.keypair))
                  /\ r.value.peer_id = PeerIdOf(r.value.keypair)
               \/ r.tag = "Err" /\ r.error = "Io" ]_vars
    /\ [](\A i, j \in 1..Len(loaded) :
            (i < j /\ loaded[i].result.tag = "Ok") =>
                \/ /\ loaded[j].result.tag = "Ok"
                   /\ loaded[j].result.value.peer_id = loaded[i].result.value.peer_id
                \/ loaded[j].result.tag = "Err" /\ loaded[j].result.error = "Io")
    /\ [][ (LoadReturns /\ Undecodable(file)) =>
            LET r == loaded'[Len(loaded')].result
            IN /\ r.tag = "Err"
               /\ r.error \in {"ConfigError", "Io"}
               /\ file' = file ]_vars

\* the first call found no file and generated an identity, the later calls
\* loaded it
C31_Witness ==
    /\ Len(loaded) = MaxLoads
    /\ ~loaded[1].found
    /\ \A i \in 1..MaxLoads : loaded[i].result.tag = "Ok"
    /\ file = File(ToProtobufEncoding(loaded[1].result.value.keypair))

(***************************************************************************)
(* The env file of a vault (wh-core, secrets.rs).  A string is the         *)
(* sequence of its characters.  `secrets` is the HashMap of the vault, a   *)
(* function from keys to values.                                           *)
(***************************************************************************)
NL == "\n"
DQ == "\""
SQ == "'"
BS == "\\"

\* the characters env files are written with here
EnvChars == {"K", "=", " ", DQ, SQ, "#", NL}

\* the code point of a character
Code(c) ==
    CASE c = NL -> 10 [] c = " " -> 32 [] c = DQ -> 34 [] c = "#" -> 35
      [] c = SQ -> 39 [] c = "=" -> 61 [] c = "K" -> 75 [] c = BS -> 92

IsWhitespace(c) == c \in {" ", NL}

\* `str::lines()`: the pieces between line feeds; a final line feed ends the
\* last line and starts no empty one
RECURSIVE EnvLines(_)
EnvLines(s) ==
    IF s = << >> THEN << >>
    ELSE IF \E i \in 1..Len(s) : s[i] = NL
         THEN LET i == CHOOSE x \in 1..Len(s) : s[x] = NL /\ \A y \in 1..(x - 1) : s[y] # NL
              IN << SubSeq(s, 1, i - 1) >> \o EnvLines(SubSeq(s, i + 1, Len(s)))
         ELSE << s >>

\* `str::trim()`
RECURSIVE TrimStart(_)
TrimStart(s) ==
    IF s # << >> /\ IsWhitespace(s[1]) THEN TrimStart(Tail(s)) ELSE s
RECURSIVE TrimEnd(_)
TrimEnd(s) ==
    IF s # << >> /\ IsWhitespace(s[Len(s)]) THEN TrimEnd(SubSeq(s, 1, Len(s) - 1)) ELSE s
Trim(s) == TrimEnd(TrimStart(s))

\* `line.split_once('=')`: the part before the first '=' and the part after it
HasEq(s) == \E i \in 1..Len(s) : s[i] = "="
FirstEq(s) == CHOOSE i \in 1..Len(s) : s[i] = "=" /\ \A j \in 1..(i - 1) : s[j] # "="
SplitOnce(s) == << SubSeq(s, 1, FirstEq(s) - 1), SubSeq(s, FirstEq(s) + 1, Len(s)) >>

StartsWith(s, c) == s # << >> /\ s[1] = c
EndsWith(s, c) == s # << >> /\ s[Len(s)] = c

\* faulty variant: quotes are kept
ParseValueKeepsQuotes(value) == Trim(value)

\* `EnvVault::parse_value`
ParseValue(value) ==
    LET v == Trim(value)
    IN IF /\ \/ StartsWith(v, DQ) /\ EndsWith(v, DQ)
             \/ StartsWith(v, SQ) /\ EndsWith(v, SQ)
          /\ Len(v) >= 2
       THEN SubSeq(v, 2, Len(v) - 1)
       ELSE v

\* `self.secrets.insert(key, value)`
Insert(secrets, key, value) ==
    [k \in DOMAIN secrets \cup {key} |-> IF k = key THEN value ELSE secrets[k]]

EnvParseError(what, n, secrets) ==
    [tag |-> "Err", error |-> "EnvParseError", message |-> << what, n >>, secrets |-> secrets]

\* the loop of `EnvVault::parse_env_contents` from line n on, the vault holding
\* `secrets`; an error leaves the entries of the lines before in the vault
RECURSIVE ParseFrom(_, _, _)
ParseFrom(lines, n, secrets) ==
    IF n > Len(lines) THEN Ok(secrets)
    ELSE LET line == Trim(lines[n])
         IN IF line = << >> \/ StartsWith(line, "#")
            THEN ParseFrom(lines, n + 1, secrets)
            ELSE IF HasEq(line)
                 THEN LET key == Trim(SplitOnce(line)[1])
                          value == ParseValue(Trim(SplitOnce(line)[2]))
                      IN IF key = << >>
                         THEN EnvParseError("Empty key", n, secrets)
                         ELSE ParseFrom(lines, n + 1, Insert(secrets, key, value))
                 ELSE EnvParseError("Invalid format", n, secrets)

\* `EnvVault::parse_env_contents` on a new vault
ParseEnvContents(contents) == ParseFrom(EnvLines(contents), 1, << >>)

\* `value.replace('"', "\\\"")`
RECURSIVE EscapeQuotes(_)
EscapeQuotes(s) ==
    IF s = << >> THEN << >>
    ELSE (IF s[1] = DQ THEN << BS, DQ >> ELSE << s[1] >>) \o EscapeQuotes(Tail(s))

Contains(s, c) == \E i \in 1..Len(s) : s[i] = c

\* the line `to_env_format` writes for one entry
EnvLine(key, value) ==
    IF Contains(value, " ") \/ Contains(value, DQ) \/ Contains(value, SQ)
    THEN key \o << "=", DQ >> \o EscapeQuotes(value) \o << DQ >>
    ELSE key \o << "=" >> \o value

\* the order of strings: by code point, a prefix first
RECURSIVE StrLess(_, _)
StrLess(a, b) ==
    IF b = << >> THEN FALSE
    ELSE IF a = << >> THEN TRUE
    ELSE IF a[1] # b[1] THEN Code(a[1]) < Code(b[1])
    ELSE StrLess(Tail(a), Tail(b))

\* `lines.sort(); lines.join("\n")`
RECURSIVE SortJoin(_)
SortJoin(ls) ==
    IF ls = {} THEN << >>
    ELSE LET first == CHOOSE l \in ls : \A o \in ls \ {l} : StrLess(l, o)
         IN IF ls = {first} THEN first
            ELSE first \o << NL >> \o SortJoin(ls \ {first})

\* `EnvVault::to_env_format`
ToEnvFormat(secrets) == SortJoin({EnvLine(k, secrets[k]) : k \in DOMAIN secrets})

\* the env files given to the parser
EnvCalls ==
    {[fn |-> "parse_env_contents", contents |-> c] : c \in SeqsUpTo(EnvChars, MaxEnvLen)}

envFrame == << file, loaded, evch, proxy, daemonVars, loopVars, bridgeVars >>

\* a vault is made from the file
ParseEnvContentsCall ==
    /\ call.fn = "parse_env_contents"
    /\ ret = NoRet
    /\ ret' = ParseEnvContents(call.contents)
    /\ UNCHANGED << call, envFrame >>

\* the vault made is exported
ToEnvFormatCall ==
    /\ call.fn = "parse_env_contents"
    /\ ret.tag = "Ok"
    /\ call' = [fn |-> "to_env_format", secrets |-> ret.value]
    /\ ret' = Ok(ToEnvFormat(ret.value))
    /\ UNCHANGED envFrame

\* a second vault is made from the export
ReparseCall ==
    /\ call.fn = "to_env_format"
    /\ call' = [fn |-> "reparse", secrets |-> call.secrets, contents |-> ret.value]
    /\ ret' = ParseEnvContents(ret.value)
    /\ UNCHANGED envFrame

EnvInit ==
    /\ DaemonInit
    /\ BridgeIdle
    /\ call \in EnvCalls
    /\ ret = NoRet
    /\ file = Absent
    /\ loaded = << >>
    /\ evch = NoChannels
    /\ proxy = NoProxy

EnvNext == ParseEnvContentsCall \/ ToEnvFormatCall \/ ReparseCall

EnvSpec == EnvInit /\ [][EnvNext]_vars

\* the trimmed lines of an env file
TrimmedLines(c) == [i \in 1..Len(EnvLines(c)) |-> Trim(EnvLines(c)[i])]
\* a blank line or a comment
Skipped(t) == t = << >> \/ t[1] = "#"
\* the key and the value a declaration declares
KeyOf(t) == Trim(SubSeq(t, 1, FirstEq(t) - 1))
Unquote(v) ==
    IF Len(v) >= 2 /\ v[1] = v[Len(v)] /\ v[1] \in {DQ, SQ}
    THEN SubSeq(v, 2, Len(v) - 1)
    ELSE v
ValueOf(t) == Unquote(Trim(SubSeq(t, FirstEq(t) + 1, Len(t))))
\* neither skipped nor a declaration with a key
Malformed(t) == ~Skipped(t) /\ (~HasEq(t) \/ KeyOf(t) = << >>)

\* C32: parsing an env file skips blank lines and lines starting with #;
\* when some other trimmed line has no '=' or an empty key before its first
\* '=', it fails with EnvParseError naming the 1-based number of the first
\* such line; otherwise the vault holds exactly the keys declared, each key
\* the trimmed text before the first '=' of its line, with the value of the
\* last line declaring it: the text after that '=' without surrounding
\* whitespace and without one pair of matching outer quotes.
C32_EnvParsing ==
    Returned("parse_env_contents") =>
        LET t == TrimmedLines(call.contents)
            bad == {i \in DOMAIN t : Malformed(t[i])}
            decl == {i \in DOMAIN t : ~Skipped(t[i])}
        IN IF bad # {}
           THEN /\ ret.tag = "Err"
                /\ ret.error = "EnvParseError"
                /\ ret.message[2] \in bad
                /\ \A i \in bad : ret.message[2] <= i
           ELSE /\ ret.tag = "Ok"
                /\ DOMAIN ret.value = {KeyOf(t[i]) : i \in decl}
                /\ \A i \in decl :
                      (\A j \in decl : j > i => KeyOf(t[j]) # KeyOf(t[i]))
                          => ret.value[KeyOf(t[i])] = ValueOf(t[i])

\* a file whose two lines declare the same key with different values, the
\* second one quoted, was parsed
C32_Witness ==
    /\ Returned("parse_env_contents")
    /\ ret.tag = "Ok"
    /\ LET t == TrimmedLines(call.contents)
       IN /\ Len(t) = 2
          /\ ~Skipped(t[1]) /\ ~Skipped(t[2])
          /\ KeyOf(t[1]) = KeyOf(t[2])
          /\ ValueOf(t[1]) # ValueOf(t[2])
          /\ ret.value[KeyOf(t[1])] = ValueOf(t[2])

\* C33: exporting the vault parsed from an env file with to_env_format and
\* parsing the export again gives a vault with the same keys and values.
C33_EnvRoundTrip ==
    call.fn = "reparse" => ret = Ok(call.secrets)

(***************************************************************************)
(* Approval requests of several peers.                                     *)
(***************************************************************************)
\* the request of substream s waits for its reply
Awaited(s) == pc = "await" /\ s \in waiting
\* the command at the head of the channel is a reply for peer p
ReplyReadyFor(p) ==
    /\ command_rx # << >>
    /\ Head(command_rx).type \in {"ApproveConnection", "DenyConnection"}
    /\ Head(command_rx).peer_id = p

\* C34: while the approval request of one peer waits, the substream of
\* another peer can be taken and its request put in the table beside the
\* first, and a reply naming the waiting peer can be handled and reaches
\* that request; requests of several peers are outstanding together and
\* each is resolved by its own reply.
C34_IndependentApprovals ==
    \A s \in StreamIds :
        (Awaited(s) /\ running) =>
            /\ (incoming_streams # << >> /\ streamPeer[Head(incoming_streams)] # streamPeer[s])
                   => ENABLED InboundTunnel
            /\ ReplyReadyFor(streamPeer[s]) => ENABLED HandleCommand

(***************************************************************************)
(* TunnelEstablished and the connection to the peer.                       *)
(***************************************************************************)
\* TunnelEstablished{p} is emitted in this step
EmitsTunnelEstablished(p) ==
    /\ Len(events') = Len(events) + 1
    /\ events'[Len(events')].type = "TunnelEstablished"
    /\ events'[Len(events')].peer_id = p

\* C36: when TunnelEstablished{p} is emitted, the swarm has an established
\* connection to p and the peer table holds the record of p, the
\* ConnectionEstablished of p having been handled by then.
C36_TunnelOnlyWhenConnected ==
    [][ \A p \in NetPeers :
            EmitsTunnelEstablished(p) => (established[p] > 0 /\ p \in DOMAIN peers') ]_vars

(***************************************************************************)
(* The secrets flow and the approval gate.                                 *)
(***************************************************************************)
\* the approval gate is the same after this step
GateUntouched ==
    /\ pending_approvals' = pending_approvals
    /\ chan' = chan
    /\ auto_approve' = auto_approve
    /\ waiting' = waiting
    /\ outcomes' = outcomes

\* C37: what becomes of an inbound secrets substream is decided by the vault
\* alone: with a vault its answering task is spawned, whatever auto_approve
\* is and whatever the approval table and the outcomes of tunnel requests
\* are; neither the arm nor the task changes the approval table, the
\* one-shot channels or auto_approve; and a waiting secrets substream is
\* taken as soon as the loop is at its select, where a pending tunnel
\* request keeps it for the time of its wait at most.
C37_SecretsIgnoreApprovalGate ==
    /\ [][ \A x \in SecretIds :
              /\ SecretTaken(x) =>
                     /\ secret'[x] = (IF share_secrets THEN "spawned" ELSE "dropped")
                     /\ GateUntouched
              /\ SecretsStep(x) => GateUntouched ]_vars
    /\ []((pc = "select" /\ running /\ incoming_secrets # << >>) => ENABLED InboundSecrets)
    /\ [](pc = "await" => ENABLED ApprovalWait)

\* a secrets substream was answered from a share without auto_approve while
\* a tunnel request is pending
C37_Witness ==
    /\ ~auto_approve
    /\ pc = "await"
    /\ pending_approvals # << >>
    /\ \E x \in SecretIds : secret[x] = "answered"

(***************************************************************************)
(* Replies that find no pending request.                                   *)
(***************************************************************************)
\* the loop takes a reply naming a peer without an entry in the table
HandlesStrayReply ==
    /\ pc = "select"
    /\ command_rx # << >>
    /\ Head(command_rx).type \in {"ApproveConnection", "DenyConnection"}
    /\ Head(command_rx).peer_id \notin DOMAIN pending_approvals
    /\ command_rx' = Tail(command_rx)

\* the loop takes substream s of a share that asks for approval
RequestsApproval(s) ==
    /\ pc = "select"
    /\ incoming_streams # << >>
    /\ Head(incoming_streams) = s
    /\ incoming_streams' = Tail(incoming_streams)
    /\ ShareActive(share_port)
    /\ ApprovalNeeded(auto_approve)

\* C38: handling an ApproveConnection or DenyConnection whose peer has no
\* entry in the approval table takes the command and changes nothing else:
\* no event, no table entry, no one-shot channel, no task, no share-state;
\* so a substream dropped by the timeout is not bridged by a late reply, and
\* a later substream of the same peer is not approved by it: it gets a new
\* request of its own and waits.
C38_StrayReplyChangesNothing ==
    /\ [][ HandlesStrayReply =>
            UNCHANGED << running, share_port, auto_approve, share_secrets,
                         pending_approvals, chan, incoming_streams, pc, waiting,
                         events, task, taskPort, bytes_sent, bytes_received,
                         active_connections, streamPeer, nextStream, outcomes,
                         loopVars, bridgeVars >> ]_vars
    /\ [][ \A s \in StreamIds :
             RequestsApproval(s) =>
                 /\ pc' = "await"
                 /\ waiting' = {s}
                 /\ chan'[s] = "open"
                 /\ task'[s] = task[s]
                 /\ events' = Append(events, Ev("IncomingConnectionRequest", streamPeer[s])) ]_vars
    /\ [](\A s \in StreamIds : "timeout" \in outcomes[s] => task[s] = "none")

\* the first substream of a peer timed out, the ApproveConnection sent for it
\* during the wait was handled afterwards, and a later substream of the same
\* peer waits for its own approval, unbridged
C38_Witness ==
    /\ "timeout" \in outcomes[1]
    /\ 1 \in approveInTime
    /\ command_rx = << >>
    /\ pc = "await"
    /\ waiting = {2}
    /\ streamPeer[2] = streamPeer[1]
    /\ task[1] = "none" /\ task[2] = "none"
    /\ DOMAIN pending_approvals = {streamPeer[2]}

(***************************************************************************)
(* The event channel of the daemon (wh-daemon, server.rs).  Channel 0 is   *)
(* the one made by DaemonServer::new; the k-th call of                     *)
(* take_event_receiver makes channel k.  `evch` holds                      *)
(*   daemon    "created", "started", "running", "stopped"                  *)
(*   event_tx  the channel self.event_tx sends to                          *)
(*   event_rx  the channel whose receiver self.event_rx is                 *)
(*   handed    the channels whose receivers the calls returned, in order   *)
(*   queue     the events in each channel, oldest first                    *)
(*   received  what the holder of each returned receiver has received      *)
(*   emitted   history: the events the daemon has sent, in order           *)
(***************************************************************************)
Channels == 0..MaxTakes
eventFrame == << call, ret, file, loaded, proxy, daemonVars, loopVars, bridgeVars >>

\* faulty variant: the sender is moved to the new channel with the receiver
SenderAfterTakeRedirected(tx, new) == new

\* `// DON'T replace event_tx`
SenderAfterTake(tx, new) == tx

\* `DaemonServer::take_event_receiver`: a new channel whose sender is dropped
\* at once; `std::mem::replace(&mut self.event_rx, new_rx)` is returned.  The
\* daemon is borrowed mutably by start() and run(), so the call comes before,
\* between or after them.
TakeEventReceiver ==
    /\ evch.daemon \in {"created", "started", "stopped"}
    /\ Len(evch.handed) < MaxTakes
    /\ LET new == Len(evch.handed) + 1
       IN evch' = [evch EXCEPT !.handed = Append(@, evch.event_rx),
                               !.event_rx = new,
                               !.event_tx = SenderAfterTake(@, new)]
    /\ UNCHANGED eventFrame

\* `event_tx.send(e).await`: waits while the channel is full
Send(ch, e) ==
    /\ Len(ch.queue[ch.event_tx]) < MaxQueued
    /\ Len(ch.emitted) < MaxEmits
    /\ evch' = [ch EXCEPT !.queue[ch.event_tx] = Append(@, e),
                          !.emitted = Append(@, e)]

\* an event, numbered in the order of emission
Event(ch, type) == [type |-> type, n |-> Len(ch.emitted) + 1]

\* `DaemonServer::start`, with one listen address: Listening, then Ready
StartListening ==
    /\ evch.daemon = "created"
    /\ Send([evch EXCEPT !.daemon = "listening"], Event(evch, "Listening"))
    /\ UNCHANGED eventFrame

StartReady ==
    /\ evch.daemon = "listening"
    /\ Send([evch EXCEPT !.daemon = "started"], Event(evch, "Ready"))
    /\ UNCHANGED eventFrame

\* `DaemonServer::run`: `let event_tx = self.event_tx.clone()`
RunStarts ==
    /\ evch.daemon = "started"
    /\ evch' = [evch EXCEPT !.daemon = "running"]
    /\ UNCHANGED eventFrame

\* the control loop sends an event on its clone of event_tx
RunEmits(type) ==
    /\ evch.daemon = "running"
    /\ Send(evch, Event(evch, type))
    /\ UNCHANGED eventFrame

\* after the loop: `self.event_tx.send(DaemonEvent::Shutdown)`
RunEnds ==
    /\ evch.daemon = "running"
    /\ Send([evch EXCEPT !.daemon = "stopped"], Event(evch, "Shutdown"))
    /\ UNCHANGED eventFrame

\* the holder of the i-th returned receiver receives an event
Recv(i) ==
    /\ i \in 1..Len(evch.handed)
    /\ evch.queue[evch.handed[i]] # << >>
    /\ evch' = [evch EXCEPT !.queue[evch.handed[i]] = Tail(@),
                            !.received[i] = Append(@, Head(evch.queue[evch.handed[i]]))]
    /\ UNCHANGED eventFrame

EventInit ==
    /\ DaemonInit
    /\ BridgeIdle
    /\ call = NoCall
    /\ ret = NoRet
    /\ file = Absent
    /\ loaded = << >>
    /\ evch = [daemon |-> "created", event_tx |-> 0, event_rx |-> 0, handed |-> << >>,
               queue |-> [c \in Channels |-> << >>],
               received |-> [i \in 1..MaxTakes |-> << >>],
               emitted |-> << >>]
    /\ proxy = NoProxy

EventNext ==
    \/ TakeEventReceiver
    \/ StartListening
    \/ StartReady
    \/ RunStarts
    \/ \E type \in {"StatsUpdate", "Error"} : RunEmits(type)
    \/ RunEnds
    \/ \E i \in 1..MaxTakes : Recv(i)

EventSpec == EventInit /\ [][EventNext]_vars

\* a call of take_event_receiver returns in this step
Takes == Len(evch'.handed) = Len(evch.handed) + 1

\* C39: the first call of take_event_receiver returns the receiver of the
\* channel the daemon sends on, and no call changes where the daemon sends
\* or what is in that channel; so what the holder of that receiver has
\* received, followed by what waits in the channel, is at every moment
\* exactly what the daemon has emitted from start and from the control
\* loop, in the order of emission, and an event that waits can be received;
\* the receiver of a later call receives nothing.
C39_EventsReachFirstReceiver ==
    /\ [][ Takes => /\ evch'.event_tx = evch.event_tx
                    /\ evch'.queue = evch.queue
                    /\ evch'.emitted = evch.emitted ]_vars
    /\ [](evch.handed # << >> =>
            /\ evch.handed[1] = evch.event_tx
            /\ evch.received[1] \o evch.queue[evch.event_tx] = evch.emitted
            /\ \A i \in 2..Len(evch.handed) : evch.received[i] = << >>
            /\ evch.queue[evch.event_tx] # << >> => ENABLED Recv(1))

\* the receiver was taken twice, the second time after the daemon had
\* started, and its first holder has received the events of start and of
\* the control loop
C39_Witness ==
    /\ Len(evch.handed) = 2
    /\ Len(evch.received[1]) = MaxEmits
    /\ evch.received[1][1].type = "Listening"
    /\ evch.received[1][MaxEmits].type = "Shutdown"
    /\ evch.received[1] = evch.emitted

(***************************************************************************)
(* TunnelProxy (proxy/tunnel.rs) and ProxyStats (proxy/listener.rs).  An   *)
(* AtomicU64 is kept as its four 16-bit limbs, the lowest first.  `proxy`  *)
(* holds                                                                   *)
(*   streams  the stream ids given out so far                              *)
(*   caller   where handle_local_connection is for each stream:            *)
(*            "registered", "spawned", "returned"                          *)
(*   handler  the spawned task of each stream: "none", "running",          *)
(*            "closed" (after stats.connection_closed()), "removed"        *)
(*   total    ProxyStats.connections_total                                 *)
(*   active   ProxyStats.connections_active                                *)
(***************************************************************************)
ProxyStreams == 1..MaxProxyStreams

\* a small number as an AtomicU64
U64Of(n) == << n, 0, 0, 0 >>

\* `fetch_add(1, Relaxed)` on an AtomicU64: wraps at 2^64
RECURSIVE WrappingInc(_, _)
WrappingInc(v, i) ==
    IF i > 4 THEN v
    ELSE IF v[i] = 65535 THEN WrappingInc([v EXCEPT ![i] = 0], i + 1)
    ELSE [v EXCEPT ![i] = @ + 1]

\* `fetch_sub(1, Relaxed)` on an AtomicU64: wraps below 0
RECURSIVE WrappingDec(_, _)
WrappingDec(v, i) ==
    IF i > 4 THEN v
    ELSE IF v[i] = 0 THEN WrappingDec([v EXCEPT ![i] = 65535], i + 1)
    ELSE [v EXCEPT ![i] = @ - 1]

proxyFrame == << call, ret, file, loaded, evch, daemonVars, loopVars, bridgeVars >>

\* handle_local_connection up to the spawn: the stream id is drawn and the
\* stream is put into `streams`
Register(s) ==
    /\ s \notin proxy.streams
    /\ \A t \in ProxyStreams : t < s => t \in proxy.streams
    /\ proxy' = [proxy EXCEPT !.streams = @ \cup {s},
                              !.caller[s] = "registered"]
    /\ UNCHANGED proxyFrame

\* `tokio::spawn(async move { run_stream_handler(..) ... })`: the task may
\* run on another worker thread from now on
SpawnHandler(s) ==
    /\ s \in proxy.streams
    /\ proxy.caller[s] = "registered"
    /\ proxy' = [proxy EXCEPT !.caller[s] = "spawned",
                              !.handler[s] = "running"]
    /\ UNCHANGED proxyFrame

\* `self.stats.connection_opened()`, after the spawn, and `Ok(stream_id)`
ConnectionOpened(s) ==
    /\ s \in proxy.streams
    /\ proxy.caller[s] = "spawned"
    /\ proxy' = [proxy EXCEPT !.caller[s] = "returned",
                              !.total = WrappingInc(@, 1),
                              !.active = WrappingInc(@, 1)]
    /\ UNCHANGED proxyFrame

\* run_stream_handler leaves its loop (the TCP connection closed, a read or
\* a write failed): `stats.connection_closed()`
ConnectionClosed(s) ==
    /\ s \in proxy.streams
    /\ proxy.handler[s] = "running"
    /\ proxy' = [proxy EXCEPT !.handler[s] = "closed",
                              !.active = WrappingDec(@, 1)]
    /\ UNCHANGED proxyFrame

\* `streams.write().await.remove(&stream_id)`
RemoveStream(s) ==
    /\ s \in proxy.streams
    /\ proxy.handler[s] = "closed"
    /\ proxy' = [proxy EXCEPT !.handler[s] = "removed"]
    /\ UNCHANGED proxyFrame

ProxyInit ==
    /\ DaemonInit
    /\ BridgeIdle
    /\ call = NoCall
    /\ ret = NoRet
    /\ file = Absent
    /\ loaded = << >>
    /\ evch = NoChannels
    /\ proxy = [streams |-> {},
                caller |-> [s \in ProxyStreams |-> "none"],
                handler |-> [s \in ProxyStreams |-> "none"],
                total |-> U64Of(0),
                active |-> U64Of(0)]

ProxyNext ==
    \E s \in ProxyStreams :
        \/ Register(s)
        \/ SpawnHandler(s)
        \/ ConnectionOpened(s)
        \/ ConnectionClosed(s)
        \/ RemoveStream(s)

ProxySpec == ProxyInit /\ [][ProxyNext]_vars

\* the streams whose handler is recorded as opened and not yet as closed
OpenNow == {s \in proxy.streams : proxy.caller[s] = "returned" /\ proxy.handler[s] = "running"}

\* C40: connections_active always equals the number of stream handlers that
\* have been recorded as opened and not yet as closed, so it never goes
\* below zero; the closing of a stream is recorded only after its opening.
C40_ActiveCountsOpenHandlers ==
    /\ proxy.active = U64Of(Cardinality(OpenNow))
    /\ \A s \in proxy.streams :
           proxy.handler[s] \in {"closed", "removed"} => proxy.caller[s] = "returned"

(***************************************************************************)
(* The stream bridges.  One bridge connects a local TCP socket and one     *)
(* substream with two copy loops:                                          *)
(*   "with_stats"  bridge_with_stats, run by the sharer: the two loops are *)
(*                 futures joined with tokio::join!                        *)
(*   "pump"        the connect-side pump: two async blocks in one          *)
(*                 tokio::select!                                          *)
(*   "copy"        bridge_stream_to_tcp: two tokio::io::copy futures in    *)
(*                 one tokio::select!                                      *)
(***************************************************************************)
BridgeInit ==
    /\ DaemonInit
    /\ kind \in BridgeKinds
    /\ \E a \in SeqsUpTo(Alphabet("toStream"), MaxLen),
          b \in SeqsUpTo(Alphabet("toTcp"), MaxLen) :
            data = [d \in Dirs |-> IF d = "toStream" THEN a ELSE b]
    /\ srcClosed = [d \in Dirs |-> FALSE]
    /\ pos = [d \in Dirs |-> 0]
    /\ buf = [d \in Dirs |-> ZeroBuf]
    /\ nread = [d \in Dirs |-> 0]
    /\ lp = [d \in Dirs |-> "read"]
    /\ written = [d \in Dirs |-> << >>]
    /\ errored = [d \in Dirs |-> FALSE]
    /\ br = "dial"
    /\ PureIdle

\* everything of the daemon but the two byte counters
daemonFrame ==
    << running, share_port, auto_approve, share_secrets, pending_approvals, chan,
       command_rx, incoming_streams, pc, waiting, events, task, taskPort,
       active_connections, streamPeer, nextStream, sentCmds, outcomes,
       approveInTime, denyInTime, loopVars, pureVars >>

Min(a, b) == IF a < b THEN a ELSE b

\* read(&mut buf) that yields the bytes `got`: they overwrite the front of buf
Fill(b, got) == [i \in 1..MaxChunk |-> IF i <= Len(got) THEN got[i] ELSE b[i]]

\* faulty variant: the whole buffer is written, not its first n bytes
SliceWhole(b, n) == b

\* `&buf[..n]`
Slice(b, n) == SubSeq(b, 1, n)

\* tokio::join! completes when both loops have ended, tokio::select! when the
\* first has; l is the loops' state after the step
ReturnsNow(k, l) ==
    IF k = "with_stats"
      THEN \A d \in Dirs : l[d] = "done"
      ELSE \E d \in Dirs : l[d] = "done"

\* bytes_sent counts what the TCP-to-substream loop wrote, bytes_received what
\* the substream-to-TCP loop wrote; tokio::io::copy counts nothing
\* faulty variant: both loops add to bytes_sent
AddSentEitherWay(k, d, n) == IF k # "copy" THEN bytes_sent + n ELSE bytes_sent

\* the counter increments of a loop of direction d that wrote n bytes
AddSent(k, d, n) == IF k # "copy" /\ d = "toStream" THEN bytes_sent + n ELSE bytes_sent
AddReceived(k, d, n) == IF k # "copy" /\ d = "toTcp" THEN bytes_received + n ELSE bytes_received

\* TcpStream::connect (sharer) or open_tunnel_stream (connector) succeeds or fails
Dial(ok) ==
    /\ br = "dial"
    /\ br' = IF ok THEN "run" ELSE "failed"
    /\ UNCHANGED << daemonFrame, bytes_sent, bytes_received, kind, data, srcClosed,
                    pos, buf, nread, lp, written, errored >>

\* the application at the source end of direction d closes after its bytes
SourceClose(d) ==
    /\ br \in {"dial", "run", "returned"}
    /\ ~srcClosed[d]
    /\ srcClosed' = [srcClosed EXCEPT ![d] = TRUE]
    /\ UNCHANGED << daemonFrame, bytes_sent, bytes_received, kind, data, pos, buf,
                    nread, lp, written, errored, br >>

\* read(&mut buf) returns Ok(n), n > 0
ReadChunk(d, n) ==
    /\ br = "run"
    /\ lp[d] = "read"
    /\ n \in 1..Min(MaxChunk, Len(data[d]) - pos[d])
    /\ buf' = [buf EXCEPT ![d] = Fill(@, SubSeq(data[d], pos[d] + 1, pos[d] + n))]
    /\ nread' = [nread EXCEPT ![d] = n]
    /\ pos' = [pos EXCEPT ![d] = @ + n]
    /\ lp' = [lp EXCEPT ![d] = "write"]
    /\ UNCHANGED << daemonFrame, bytes_sent, bytes_received, kind, data, srcClosed,
                    written, errored, br >>

\* the loop of direction d ends, by `break` on Ok(0) or on an error
Terminate(d, err) ==
    /\ lp' = [lp EXCEPT ![d] = "done"]
    /\ errored' = [errored EXCEPT ![d] = @ \/ err]
    /\ br' = IF ReturnsNow(kind, lp') THEN "returned" ELSE br

\* read returns Ok(0): the source is closed and drained
ReadEof(d) ==
    /\ br = "run"
    /\ lp[d] = "read"
    /\ srcClosed[d]
    /\ pos[d] = Len(data[d])
    /\ Terminate(d, FALSE)
    /\ UNCHANGED << daemonFrame, bytes_sent, bytes_received, kind, data, srcClosed,
                    pos, buf, nread, written >>

\* read returns Err(e)
ReadError(d) ==
    /\ br = "run"
    /\ lp[d] = "read"
    /\ Terminate(d, TRUE)
    /\ UNCHANGED << daemonFrame, bytes_sent, bytes_received, kind, data, srcClosed,
                    pos, buf, nread, written >>

\* write_all(&buf[..n]) succeeds, then the counter is increased by n
WriteChunk(d) ==
    /\ br = "run"
    /\ lp[d] = "write"
    /\ written' = [written EXCEPT ![d] = @ \o Slice(buf[d], nread[d])]
    /\ bytes_sent' = AddSent(kind, d, nread[d])
    /\ bytes_received' = AddReceived(kind, d, nread[d])
    /\ lp' = [lp EXCEPT ![d] = "read"]
    /\ UNCHANGED << daemonFrame, kind, data, srcClosed, pos, buf, nread, errored, br >>

\* write_all fails after k bytes of the chunk went out
WriteError(d, k) ==
    /\ br = "run"
    /\ lp[d] = "write"
    /\ k \in 0..(nread[d] - 1)
    /\ written' = [written EXCEPT ![d] = @ \o SubSeq(Slice(buf[d], nread[d]), 1, k)]
    /\ Terminate(d, TRUE)
    /\ UNCHANGED << daemonFrame, bytes_sent, bytes_received, kind, data, srcClosed,
                    pos, buf, nread >>

BridgeNext ==
    \/ \E ok \in BOOLEAN : Dial(ok)
    \/ \E d \in Dirs : SourceClose(d)
    \/ \E d \in Dirs, n \in 1..MaxChunk : ReadChunk(d, n)
    \/ \E d \in Dirs : ReadEof(d)
    \/ \E d \in Dirs : ReadError(d)
    \/ \E d \in Dirs : WriteChunk(d)
    \/ \E d \in Dirs, k \in 0..MaxChunk : WriteError(d, k)

BridgeSpec == BridgeInit /\ [][BridgeNext]_vars

\* the bytes counted for direction d
CountedIn(d) == IF d = "toStream" THEN bytes_sent ELSE bytes_received
\* the loop of direction d writes its chunk completely in this step
WritesChunk(d) ==
    /\ lp[d] = "write"
    /\ lp'[d] = "read"
    /\ written'[d] = written[d] \o Slice(buf[d], nread[d])

DstEof(d) ==
    \/ br = "returned"
    \/ (kind = "with_stats" /\ d = "toTcp" /\ lp[d] = "done")

IsPrefix(a, b) == Len(a) <= Len(b) /\ a = SubSeq(b, 1, Len(a))

\* the bytes read so far from the source of direction d
ReadSoFar(d) == SubSeq(data[d], 1, pos[d])

\* C8: when bytes were offered at the source end of a direction and that end
\* was closed, no I/O error occurred, and the destination end has seen EOF,
\* the destination has read exactly the offered bytes.
C8_ByteFidelity ==
    \A d \in Dirs :
        (srcClosed[d] /\ DstEof(d) /\ \A e \in Dirs : ~errored[e]) =>
            written[d] = data[d]

\* C9: in each direction the bytes written to the destination are a prefix of
\* the bytes read from the source; what is read and not yet written is the
\* chunk the loop holds, and without an error nothing else is missing.
C9_PrefixPreserved ==
    \A d \in Dirs :
        /\ IsPrefix(written[d], ReadSoFar(d))
        /\ lp[d] = "write" => written[d] \o SubSeq(buf[d], 1, nread[d]) = ReadSoFar(d)
        /\ (lp[d] # "write" /\ ~errored[d]) => written[d] = ReadSoFar(d)

\* both directions have copied, and one of them holds a second chunk that
\* fills its buffer only in part
C9_Witness ==
    /\ \A d \in Dirs : written[d] # << >>
    /\ \E d \in Dirs : lp[d] = "write" /\ nread[d] < MaxChunk

\* C10: once either copy loop of a bridge has ended, on EOF or on an error, the
\* bridge has returned (and with it closed both endpoints); no state has a
\* loop that ended inside a bridge that still runs.
C10_ReturnsOnFirstEnd ==
    (\E d \in Dirs : lp[d] = "done") => br = "returned"

=============================================================================
